---- MODULE Spec2Model ----
(***************************************************************************)
(* Flown: cheapest round-trip itinerary search.                            *)
(*                                                                         *)
(* The module models the search core of the repository:                    *)
(*   - FlightGraph            (services/flight_graph.py)                   *)
(*   - RouteTemplateEngine    (services/route_templates.py)                *)
(*   - PriceAggregator        (services/price_aggregator.py)               *)
(*   - DateUtils              (utils/date_utils.py)                        *)
(*   - SearchEngine           (services/search_engine.py)                  *)
(*   - CacheManager           (utils/cache.py)                             *)
(*   - the providers' lookups (providers/amadeus.py, airlabs.py)           *)
(*                                                                         *)
(* The specifications share the definitions:                               *)
(*   Spec          the engine serving two searches that interleave         *)
(*   FetchSpec     the two cached fetches called one at a time             *)
(*   GraphSpec     a FlightGraph built one segment at a time               *)
(*   TemplateSpec  validate_template on templates grown stop by stop       *)
(*   AssembleSpec  build_itinerary_from_template on graphs built by hand   *)
(*   PopulateSpec  one populate whose fetches finish in any order          *)
(*   RefreshSpec   add_segment, clear and refresh in any order             *)
(*   ProviderSpec  the one-way lookups of the two providers                *)
(*   GenerateSpec  generate_templates on candidate lists set by hand       *)
(*   ExpandSpec    expand_template on graphs built by hand                 *)
(*   CollectSpec   step 4 of search on graphs built by hand                *)
(*   DispatchSpec  the choice of provider of populate's fetches            *)
(*   PairsSpec     the candidate date pairs of a request                   *)
(*   TasksSpec     the fetches populate creates                            *)
(*   CompareSpec   compare_with_direct on costs chosen by hand             *)
(*   RoundTripSpec steps 3 and 4 of search on graphs with a self-loop      *)
(*   DatesSpec     the same on graphs that hold a two-entry template       *)
(*   FairSpec      the engine under the event loop's fairness              *)
(*   SegmentDatesSpec  compute_segment_dates_for_template beside assembly  *)
(*                                                                         *)
(* Dates are day ordinals (integers); timedelta(days = n) is + n.          *)
(* An Optional value is a sequence of length 0 (None) or 1.                *)
(***************************************************************************)
EXTENDS Integers, Sequences, FiniteSets, TLC

VARIABLES
    graph,            \* FlightGraph.graph: (from, to) -> list of segments
    entry_airports,   \* FlightGraph.entry_airports
    exit_airports,    \* FlightGraph.exit_airports
    semaphore,        \* SearchEngine.semaphore: the permits left
    world,            \* what the fare providers answer (fixed per behaviour)
    request,          \* per search: the SearchRequest
    phase,            \* per search: where search() stands
    tasks,            \* per search: the (from, to, date) fetches of populate
    queued,           \* per search: limited_fetch tasks waiting for a permit
    inflight,         \* per search: limited_fetch tasks holding a permit
    completed,        \* per search: limited_fetch tasks that returned
    start_view,       \* per search: the graph object as step 1 left it
    assembled_from,   \* per search: the graph the itineraries were built from
    cheapest,         \* per search: find_cheapest_itinerary's result
    outbound,         \* per search: _get_direct_cost's outbound segment
    response,         \* per search: the SearchResponse returned
    cache,            \* CacheManager: the Redis connection and what it stores
    fetched,          \* the last _fetch_*_segment call, when driven directly
    args,             \* the arguments of a function called on its own
    returned,         \* what that call returned
    finish_order      \* populate called on its own: its tasks, as they finished

graphVars == <<graph, entry_airports, exit_airports>>
searchVars == <<semaphore, world, request, phase, tasks, queued, inflight, completed,
                start_view, assembled_from, cheapest, outbound, response>>
fetchVars == <<cache, fetched>>
callVars == <<args, returned, finish_order>>
vars == <<graphVars, searchVars, fetchVars, callVars>>

None == <<>>
Some(x) == <<x>>

----------------------------------------------------------------------------
(* Airport codes and str.upper() on them.                                  *)

\* str.upper() on the codes the model uses (two lowercase spellings included)
Upper(a) ==
    CASE a = "icn" -> "ICN"
      [] a = "kix" -> "KIX"
      [] OTHER -> a

\* the alphabetical order of the airport codes, as sorted() orders them
AirportOrder ==
    <<"CJU", "CTS", "FUK", "GMP", "HND", "ICN", "ITM", "KIX", "NGO", "NRT", "OKA", "PUS">>

Sorted(S) == SelectSeq(AirportOrder, LAMBDA a : a \in S)

Range(s) == { s[i] : i \in DOMAIN s }

----------------------------------------------------------------------------
(* FlightSegment                                                           *)

FlightSegment(f, t, p, prov, d) ==
    [from_airport |-> f, to_airport |-> t, price |-> p, provider |-> prov, date |-> d]

----------------------------------------------------------------------------
(* FlightGraph                                                             *)

DEFAULT_ENTRY_AIRPORTS == <<"NRT", "KIX", "FUK">>
DEFAULT_EXIT_AIRPORTS == <<"NRT", "KIX", "FUK">>

EmptyGraph == [leg \in {} |-> <<>>]

\* add_segment: upper-cases both codes, rejects an empty code, appends
add_segment(g, segment) ==
    LET f == Upper(segment.from_airport)
        t == Upper(segment.to_airport)
        leg == <<f, t>>
    IN  IF f = "" \/ t = ""
        THEN g
        ELSE IF leg \in DOMAIN g
             THEN [g EXCEPT ![leg] = Append(@, segment)]
             ELSE [l \in (DOMAIN g) \cup {leg} |->
                      IF l = leg THEN <<segment>> ELSE g[l]]

has_edge(g, from_airport, to_airport) ==
    LET leg == <<Upper(from_airport), Upper(to_airport)>>
    IN  leg \in DOMAIN g /\ g[leg] # <<>>

get_segments_nofilter(g, from_airport, to_airport, date_filter) ==
    LET leg == <<Upper(from_airport), Upper(to_airport)>>
    IN  IF leg \notin DOMAIN g THEN <<>> ELSE g[leg]

\* get_segments: the leg's list, filtered by date when a date is given
get_segments(g, from_airport, to_airport, date_filter) ==
    LET leg == <<Upper(from_airport), Upper(to_airport)>>
    IN  IF leg \notin DOMAIN g
        THEN <<>>
        ELSE IF date_filter # None
             THEN SelectSeq(g[leg], LAMBDA s : s.date = date_filter[1])
             ELSE g[leg]

\* min(segments, key = price) over segments[lo..hi]: the first element of
\* minimal price (a later element wins only when strictly cheaper)
RECURSIVE MinByPriceIn(_, _, _)
MinByPriceIn(segments, lo, hi) ==
    IF lo = hi THEN segments[lo]
    ELSE LET mid == (lo + hi) \div 2
             left == MinByPriceIn(segments, lo, mid)
             right == MinByPriceIn(segments, mid + 1, hi)
         IN  IF right.price < left.price THEN right ELSE left

MinByPrice(segments) == MinByPriceIn(segments, 1, Len(segments))

get_cheapest_segment_first(g, from_airport, to_airport, date_filter) ==
    LET segments == get_segments(g, from_airport, to_airport, date_filter)
    IN  IF segments = <<>> THEN None ELSE Some(segments[1])

get_cheapest_segment(g, from_airport, to_airport, date_filter) ==
    LET segments == get_segments(g, from_airport, to_airport, date_filter)
    IN  IF segments = <<>> THEN None ELSE Some(MinByPrice(segments))

get_cheapest_segment_strict(g, from_airport, to_airport, flight_date) ==
    get_cheapest_segment(g, from_airport, to_airport, Some(flight_date))

get_all_edges(g) == { leg \in DOMAIN g : g[leg] # <<>> }

refresh_entry_exit_unguarded(g, entries_old, exits_old, korean_airports, japanese_airports) ==
    LET entries == { leg[2] : leg \in { e \in get_all_edges(g) :
                        e[1] \in korean_airports /\ e[2] \in japanese_airports } }
        exits == { leg[1] : leg \in { e \in get_all_edges(g) :
                        e[1] \in japanese_airports /\ e[2] \in korean_airports } }
    IN  << Sorted(entries), Sorted(exits) >>

refresh_entry_exit_both_entries(g, entries_old, exits_old, korean_airports, japanese_airports) ==
    LET entries == { leg[2] : leg \in { e \in get_all_edges(g) :
                        e[1] \in korean_airports /\ e[2] \in japanese_airports } }
    IN  << IF entries # {} THEN Sorted(entries) ELSE entries_old,
           IF entries # {} THEN Sorted(entries) ELSE exits_old >>

\* refresh_entry_exit_from_graph: <<entry list, exit list>> recomputed from
\* the edges present; a list with no qualifying edge keeps its old value
refresh_entry_exit_from_graph(g, entries_old, exits_old, korean_airports, japanese_airports) ==
    LET entries == { leg[2] : leg \in { e \in get_all_edges(g) :
                        e[1] \in korean_airports /\ e[2] \in japanese_airports } }
        exits == { leg[1] : leg \in { e \in get_all_edges(g) :
                        e[1] \in japanese_airports /\ e[2] \in korean_airports } }
    IN  << IF entries # {} THEN Sorted(entries) ELSE entries_old,
           IF exits # {} THEN Sorted(exits) ELSE exits_old >>

----------------------------------------------------------------------------
(* Sequence helpers standing for Python's list comprehensions and slices.  *)

Map(s, F(_)) == [i \in 1..Len(s) |-> F(s[i])]

\* the concatenation of the sequences ss[lo..hi]
RECURSIVE FlattenIn(_, _, _)
FlattenIn(ss, lo, hi) ==
    IF lo > hi THEN <<>>
    ELSE IF lo = hi THEN ss[lo]
    ELSE LET mid == (lo + hi) \div 2
         IN  FlattenIn(ss, lo, mid) \o FlattenIn(ss, mid + 1, hi)

\* [y for x in s for y in F(x)]
FlatMap(s, F(_)) == FlattenIn(Map(s, F), 1, Len(s))

\* s[:n]
Take(s, n) == IF Len(s) <= n THEN s ELSE SubSeq(s, 1, n)

\* every leg over the airport codes, in alphabetical order
LegOrder ==
    [k \in 1..(Len(AirportOrder) * Len(AirportOrder)) |->
        << AirportOrder[((k - 1) \div Len(AirportOrder)) + 1],
           AirportOrder[((k - 1) % Len(AirportOrder)) + 1] >>]

SumPrices(segments) ==
    LET f[i \in 0..Len(segments)] ==
            IF i = 0 THEN 0 ELSE f[i - 1] + segments[i].price
    IN  f[Len(segments)]

----------------------------------------------------------------------------
(* DateUtils                                                               *)

get_date_range(start_date, end_date) ==
    IF start_date > end_date THEN <<>>
    ELSE [i \in 1..(end_date - start_date + 1) |-> start_date + i - 1]

calculate_return_date(departure_date, trip_nights) == departure_date + trip_nights

\* the look-ahead past end_date allowed to a return date, in days
RETURN_LOOKAHEAD_DAYS == 30

get_departure_return_pairs(start_date, end_date, trip_nights) ==
    FlatMap(get_date_range(start_date, end_date),
            LAMBDA d : IF calculate_return_date(d, trip_nights)
                            <= end_date + RETURN_LOOKAHEAD_DAYS
                       THEN << <<d, calculate_return_date(d, trip_nights)>> >>
                       ELSE <<>>)

----------------------------------------------------------------------------
(* RouteTemplateEngine                                                     *)

generate_templates_same_exit(departure, destination, entries_in, exits_in, allow_two_entries) ==
    LET dep == Upper(departure)
        dest == Upper(destination)
        entries == Map(entries_in, Upper)
        exits == Map(exits_in, Upper)
        A == << <<dep, dest, dep>> >>
        B == FlatMap(entries, LAMBDA entry :
                 IF entry = dest THEN <<>> ELSE << <<dep, entry, dest, dep>> >>)
        C == FlatMap(entries, LAMBDA entry :
                 IF entry = dest THEN <<>>
                 ELSE FlatMap(exits, LAMBDA exit :
                          << <<dep, entry, dest, exit, dep>> >>))
        D == IF allow_two_entries /\ Len(entries) >= 2
             THEN FlatMap(entries, LAMBDA entry1 :
                      IF entry1 = dest THEN <<>>
                      ELSE FlatMap(entries, LAMBDA entry2 :
                               IF entry2 = dest \/ entry2 = entry1 THEN <<>>
                               ELSE FlatMap(exits, LAMBDA exit :
                                        << <<dep, entry1, entry2, dest, exit, dep>> >>)))
             ELSE <<>>
    IN  A \o B \o C \o D

generate_templates(departure, destination, entries_in, exits_in, allow_two_entries) ==
    LET dep == Upper(departure)
        dest == Upper(destination)
        entries == Map(entries_in, Upper)
        exits == Map(exits_in, Upper)
        A == << <<dep, dest, dep>> >>
        B == FlatMap(entries, LAMBDA entry :
                 IF entry = dest THEN <<>> ELSE << <<dep, entry, dest, dep>> >>)
        C == FlatMap(entries, LAMBDA entry :
                 IF entry = dest THEN <<>>
                 ELSE FlatMap(exits, LAMBDA exit :
                          IF entry = exit THEN <<>>
                          ELSE << <<dep, entry, dest, exit, dep>> >>))
        D == IF allow_two_entries /\ Len(entries) >= 2
             THEN FlatMap(entries, LAMBDA entry1 :
                      IF entry1 = dest THEN <<>>
                      ELSE FlatMap(entries, LAMBDA entry2 :
                               IF entry2 = dest \/ entry2 = entry1 THEN <<>>
                               ELSE FlatMap(exits, LAMBDA exit :
                                        << <<dep, entry1, entry2, dest, exit, dep>> >>)))
             ELSE <<>>
    IN  A \o B \o C \o D

\* the largest number of interior stops validate_template admits
MAX_MIDDLE_AIRPORTS == 4

validate_template_repeats(template, destination) ==
    IF Len(template) < 3 THEN FALSE
    ELSE IF Upper(template[1]) # Upper(template[Len(template)]) THEN FALSE
    ELSE LET middle_airports == Map(SubSeq(template, 2, Len(template) - 1), Upper)
         IN  IF Len(middle_airports) > MAX_MIDDLE_AIRPORTS THEN FALSE
             ELSE IF destination # None /\ destination[1] # ""
                  THEN Upper(destination[1]) \in Range(middle_airports)
                  ELSE TRUE

\* validate_template with the earlier limit of 3 interior stops
validate_template_max3(template, destination) ==
    IF Len(template) < 3 THEN FALSE
    ELSE IF Upper(template[1]) # Upper(template[Len(template)]) THEN FALSE
    ELSE LET middle_airports == Map(SubSeq(template, 2, Len(template) - 1), Upper)
         IN  IF Len(middle_airports) # Cardinality(Range(middle_airports)) THEN FALSE
             ELSE IF Len(middle_airports) > 3 THEN FALSE
             ELSE IF destination # None /\ destination[1] # ""
                  THEN Upper(destination[1]) \in Range(middle_airports)
                  ELSE TRUE

\* validate_template(template, destination): destination is Optional
validate_template(template, destination) ==
    IF Len(template) < 3 THEN FALSE
    ELSE IF Upper(template[1]) # Upper(template[Len(template)]) THEN FALSE
    ELSE LET middle_airports == Map(SubSeq(template, 2, Len(template) - 1), Upper)
         IN  IF Len(middle_airports) # Cardinality(Range(middle_airports)) THEN FALSE
             ELSE IF Len(middle_airports) > MAX_MIDDLE_AIRPORTS THEN FALSE
             ELSE IF destination # None /\ destination[1] # ""
                  THEN Upper(destination[1]) \in Range(middle_airports)
                  ELSE TRUE

expand_template_ungated(g, template, available_segments) ==
    IF Len(template) < 2 THEN <<>> ELSE <<template>>

\* expand_template(template, available_segments): without a map the legs'
\* availability is has_edge; a leg the map does not hold counts as False
expand_template_with(g, template, available_segments) ==
    IF Len(template) < 2 THEN <<>>
    ELSE LET legs == { <<Upper(template[i]), Upper(template[i + 1])>> :
                          i \in 1..(Len(template) - 1) }
             available ==
                 IF available_segments = None
                 THEN [leg \in legs |-> has_edge(g, leg[1], leg[2])]
                 ELSE available_segments[1]
         IN  IF \A leg \in legs : leg \in DOMAIN available /\ available[leg]
             THEN <<template>>
             ELSE <<>>

\* expand_template(template) with no availability map: has_edge on each leg
expand_template(g, template) ==
    IF Len(template) < 2 THEN <<>>
    ELSE IF \A i \in 1..(Len(template) - 1) :
                has_edge(g, Upper(template[i]), Upper(template[i + 1]))
         THEN <<template>>
         ELSE <<>>

----------------------------------------------------------------------------
(* PriceAggregator                                                         *)

calculate_total_cost(segments) == SumPrices(segments)

Itinerary(segments, total_cost) == [segments |-> segments, total_cost |-> total_cost]

resolve_leg_relaxed(g, from_airport, to_airport, current_date, strict_date_match) ==
    LET exact == get_cheapest_segment(g, from_airport, to_airport, Some(current_date))
    IN  IF exact # None THEN exact
        ELSE get_cheapest_segment(g, from_airport, to_airport, None)

resolve_leg_any_date(g, from_airport, to_airport, current_date, strict_date_match) ==
    IF strict_date_match
    THEN get_cheapest_segment_strict(g, from_airport, to_airport, current_date)
    ELSE get_cheapest_segment(g, from_airport, to_airport, None)

\* one leg of build_itinerary_from_template: the segment the graph resolves
resolve_leg(g, from_airport, to_airport, current_date, strict_date_match) ==
    IF strict_date_match
    THEN get_cheapest_segment_strict(g, from_airport, to_airport, current_date)
    ELSE LET exact == get_cheapest_segment(g, from_airport, to_airport, Some(current_date))
         IN  IF exact # None THEN exact
             ELSE get_cheapest_segment(g, from_airport, to_airport, None)

\* the loop of build_itinerary_from_template from leg i on, with the segments
\* collected so far and the date cursor; None as soon as a leg is missing
RECURSIVE build_legs(_, _, _, _, _, _, _, _, _)
build_legs(g, template, i, segments, current_date, return_date, final_destination, allow_same_day_transfer, strict_date_match) ==
    IF i > Len(template) - 1
    THEN Some(Itinerary(segments, calculate_total_cost(segments)))
    ELSE LET from_airport == Upper(template[i])
             to_airport == Upper(template[i + 1])
             segment == resolve_leg(g, from_airport, to_airport, current_date,
                                    strict_date_match)
         IN  IF segment = None THEN None
             ELSE LET segment_copy == [segment[1] EXCEPT !.date = current_date]
                      next_date ==
                          IF to_airport = final_destination THEN return_date
                          ELSE IF allow_same_day_transfer THEN current_date
                          ELSE current_date + 1
                  IN  build_legs(g, template, i + 1, Append(segments, segment_copy),
                                 next_date, return_date, final_destination,
                                 allow_same_day_transfer, strict_date_match)

build_itinerary_from_template_same_day(g, template, departure_date, return_date, destination, allow_same_day_transfer, strict_date_match) ==
    IF Len(template) < 3 THEN None
    ELSE build_legs(g, template, 1, <<>>, departure_date, return_date,
                    Upper(destination), TRUE, strict_date_match)

build_itinerary_from_template(g, template, departure_date, return_date, destination, allow_same_day_transfer, strict_date_match) ==
    IF Len(template) < 3 THEN None
    ELSE build_legs(g, template, 1, <<>>, departure_date, return_date,
                    Upper(destination), allow_same_day_transfer, strict_date_match)

copy_segment_in_place(g, leg, segment, current_date) ==
    LET i == CHOOSE k \in DOMAIN g[leg] :
                 /\ g[leg][k] = segment
                 /\ \A j \in 1..(k - 1) : g[leg][j] # segment
    IN  [graph |-> [g EXCEPT ![leg][i].date = current_date],
         segment_copy |-> [segment EXCEPT !.date = current_date]]

\* the clone of a resolved segment: model_dump() builds a new dict, the date
\* is set in that dict and a new FlightSegment is constructed from it, so the
\* segment stored under `leg` is not written
copy_segment(g, leg, segment, current_date) ==
    [graph |-> g, segment_copy |-> [segment EXCEPT !.date = current_date]]

\* the graph the loop of build_itinerary_from_template leaves behind, leg by
\* leg as build_legs walks it
RECURSIVE graph_after_legs(_, _, _, _, _, _, _, _)
graph_after_legs(g, template, i, current_date, return_date, final_destination, allow_same_day_transfer, strict_date_match) ==
    IF i > Len(template) - 1
    THEN g
    ELSE LET from_airport == Upper(template[i])
             to_airport == Upper(template[i + 1])
             segment == resolve_leg(g, from_airport, to_airport, current_date,
                                    strict_date_match)
         IN  IF segment = None THEN g
             ELSE LET copied == copy_segment(g, <<from_airport, to_airport>>,
                                             segment[1], current_date)
                      next_date ==
                          IF to_airport = final_destination THEN return_date
                          ELSE IF allow_same_day_transfer THEN current_date
                          ELSE current_date + 1
                  IN  graph_after_legs(copied.graph, template, i + 1, next_date,
                                       return_date, final_destination,
                                       allow_same_day_transfer, strict_date_match)

graph_after_build(g, template, departure_date, return_date, destination, allow_same_day_transfer, strict_date_match) ==
    IF Len(template) < 3 THEN g
    ELSE graph_after_legs(g, template, 1, departure_date, return_date,
                          Upper(destination), allow_same_day_transfer,
                          strict_date_match)

RECURSIVE MinByCostIn(_, _, _)
MinByCostIn(itineraries, lo, hi) ==
    IF lo = hi THEN itineraries[lo]
    ELSE LET mid == (lo + hi) \div 2
             left == MinByCostIn(itineraries, lo, mid)
             right == MinByCostIn(itineraries, mid + 1, hi)
         IN  IF right.total_cost < left.total_cost THEN right ELSE left

find_cheapest_itinerary_last(itineraries) ==
    IF itineraries = <<>> THEN None ELSE Some(itineraries[Len(itineraries)])

find_cheapest_itinerary_first(itineraries) ==
    IF itineraries = <<>> THEN None ELSE Some(itineraries[1])

\* min(itineraries, key = total_cost): the first itinerary of minimal cost
find_cheapest_itinerary(itineraries) ==
    IF itineraries = <<>> THEN None
    ELSE Some(MinByCostIn(itineraries, 1, Len(itineraries)))

\* compare_with_direct(itinerary, direct_cost): direct_cost is Optional, and
\* `not direct_cost` is also true of a cost of 0
compare_with_direct(itinerary, direct_cost) ==
    IF direct_cost = None \/ direct_cost[1] = 0 THEN TRUE
    ELSE itinerary.total_cost < direct_cost[1]

\* Itinerary.get_route_pattern: the airports joined by " -> ", kept as the
\* sequence of the joined codes
get_route_pattern(segments) ==
    IF segments = <<>> THEN <<>>
    ELSE Append(Map(segments, LAMBDA s : s.from_airport),
                segments[Len(segments)].to_airport)

----------------------------------------------------------------------------
(* The fare providers, seen from the search engine: a lookup of            *)
(* (origin, destination, date) returns a segment, returns None, or raises. *)
(* A world fixes the answer to every lookup of one behaviour.              *)

Fare(f, t, d, p) == [f |-> f, t |-> t, d |-> d, p |-> p]

Outcome(kind, seg) == [kind |-> kind, seg |-> seg]
Raised == Outcome("raise", None)
Returned(seg) == Outcome("return", seg)

\* a fare of the world for the lookup: d = None stands for every date
WorldFares(w, origin, destination, departure_date) ==
    { x \in w.fares : /\ x.f = origin
                      /\ x.t = destination
                      /\ (x.d = None \/ x.d = Some(departure_date)) }

\* AmadeusProvider.search_one_way / AirLabsProvider.search_peach_flight
provider_lookup(w, name, origin, destination, departure_date) ==
    IF <<origin, destination>> \in w.raises
    THEN Raised
    ELSE LET m == WorldFares(w, origin, destination, departure_date)
         IN  IF m = {} THEN Returned(None)
             ELSE Returned(Some(FlightSegment(origin, destination,
                                (CHOOSE x \in m : TRUE).p, name, departure_date)))

----------------------------------------------------------------------------
(* DateUtils.format_date_for_api / parse_api_date. A date string            *)
(* "YYYY-MM-DD" is the tuple <<YYYY, MM, DD>>; ordinal 1 is 2025-01-01.     *)

DaysInMonth == <<31, 28, 31, 30, 31, 30, 31, 31, 30, 31, 30, 31>>

DaysBefore(m) ==
    LET f[i \in 0..12] == IF i = 0 THEN 0 ELSE f[i - 1] + DaysInMonth[i]
    IN  f[m - 1]

format_date_for_api(d) ==
    LET m == CHOOSE k \in 1..12 : DaysBefore(k) < d /\ d <= DaysBefore(k) + DaysInMonth[k]
    IN  <<2025, m, d - DaysBefore(m)>>

\* date.fromisoformat: Some(date), or None where it raises ValueError
parse_api_date(date_str) ==
    IF /\ Len(date_str) = 3
       /\ date_str[1] = 2025
       /\ date_str[2] \in 1..12
       /\ date_str[3] >= 1
       /\ date_str[3] <= DaysInMonth[date_str[2]]
    THEN Some(DaysBefore(date_str[2]) + date_str[3])
    ELSE None

----------------------------------------------------------------------------
(* CacheManager: redis_client is FALSE when Redis is not reachable; data   *)
(* maps a key to the stored JSON value and its TTL.                        *)

NoRedis == [redis_client |-> FALSE, data |-> [k \in {} |-> <<>>]]
EmptyRedis == [redis_client |-> TRUE, data |-> [k \in {} |-> <<>>]]

\* generate_key(prefix, date =, from_airport =, to_airport =): the keyword
\* arguments in sorted order
generate_key(prefix, from_airport, to_airport, date_str) ==
    <<prefix, "date", date_str, "from_airport", from_airport, "to_airport", to_airport>>

cache_get(c, key) ==
    IF ~c.redis_client THEN None
    ELSE IF key \in DOMAIN c.data THEN Some(c.data[key].value) ELSE None

cache_set_unguarded(c, key, value, ttl) ==
    [c EXCEPT !.data =
        [k \in (DOMAIN c.data) \cup {key} |->
            IF k = key THEN [value |-> value, ttl |-> ttl] ELSE c.data[k]]]

\* what set returns: False without a client, True once the value is stored
cache_set_returns(c, key, value, ttl) == c.redis_client

cache_set(c, key, value, ttl) ==
    IF ~c.redis_client THEN c
    ELSE [c EXCEPT !.data =
             [k \in (DOMAIN c.data) \cup {key} |->
                 IF k = key THEN [value |-> value, ttl |-> ttl] ELSE c.data[k]]]

----------------------------------------------------------------------------
(* SearchEngine                                                            *)

MAX_CONCURRENT_REQUESTS == 20
MAX_POPULATE_DAYS == 7
MAX_DATE_PAIRS == 5
DEFAULT_TRIP_NIGHTS == 3
INTERNATIONAL_TTL == 10800
DOMESTIC_TTL == 21600

korean_airports == {"ICN", "GMP", "PUS", "CJU"}
japanese_airports == {"NRT", "HND", "KIX", "CTS", "FUK", "OKA", "NGO", "ITM"}

is_international_route_outbound(from_airport, to_airport) ==
    Upper(from_airport) \in korean_airports /\ Upper(to_airport) \in japanese_airports

is_international_route(from_airport, to_airport) ==
    LET f == Upper(from_airport)
        t == Upper(to_airport)
    IN  \/ (f \in korean_airports /\ t \in japanese_airports)
        \/ (f \in japanese_airports /\ t \in korean_airports)

\* segment.model_dump() with the date formatted to its string form
to_cache(segment) ==
    [from_airport |-> segment.from_airport, to_airport |-> segment.to_airport,
     price |-> Some(segment.price), provider |-> segment.provider,
     date |-> format_date_for_api(segment.date)]

from_cache_unguarded(cached) ==
    Some(FlightSegment(cached.from_airport, cached.to_airport, 0,
                       cached.provider, 0))

\* the try block of a cache hit: Some(FlightSegment(**cached)), or None
\* where parse_api_date or the model's validation raises
from_cache(cached) ==
    IF parse_api_date(cached.date) = None \/ cached.price = None
    THEN None
    ELSE Some(FlightSegment(cached.from_airport, cached.to_airport, cached.price[1],
                            cached.provider, parse_api_date(cached.date)[1]))

fetch_segment_always_calls(c, w, prefix, name, ttl, from_airport, to_airport, departure_date) ==
    LET f == Upper(from_airport)
        t == Upper(to_airport)
        cache_key == generate_key(prefix, f, t, format_date_for_api(departure_date))
        looked == provider_lookup(w, name, f, t, departure_date)
    IN  [outcome |-> looked,
         cache |-> IF looked.kind = "return" /\ looked.seg # None
                   THEN cache_set(c, cache_key, to_cache(looked.seg[1]), ttl)
                   ELSE c,
         called |-> TRUE]

\* _fetch_international_segment / _fetch_domestic_segment, which differ in
\* the key prefix, the provider and the TTL. The result is the outcome of
\* the call, the cache it leaves, and whether the provider was called.
fetch_segment(c, w, prefix, name, ttl, from_airport, to_airport, departure_date) ==
    LET f == Upper(from_airport)
        t == Upper(to_airport)
        cache_key == generate_key(prefix, f, t, format_date_for_api(departure_date))
        cached == cache_get(c, cache_key)
        hit == IF cached = None THEN None ELSE from_cache(cached[1])
        looked == provider_lookup(w, name, f, t, departure_date)
    IN  IF hit # None
        THEN [outcome |-> Returned(hit), cache |-> c, called |-> FALSE]
        ELSE [outcome |-> looked,
              cache |-> IF looked.kind = "return" /\ looked.seg # None
                        THEN cache_set(c, cache_key, to_cache(looked.seg[1]), ttl)
                        ELSE c,
              called |-> TRUE]

fetch_international_segment(c, w, from_airport, to_airport, departure_date) ==
    fetch_segment(c, w, "amadeus", "Amadeus", INTERNATIONAL_TTL,
                  from_airport, to_airport, departure_date)

fetch_domestic_segment(c, w, from_airport, to_airport, departure_date) ==
    fetch_segment(c, w, "airlabs", "Peach", DOMESTIC_TTL,
                  from_airport, to_airport, departure_date)

\* request.trip_nights or 3
trip_nights_of(req) ==
    IF req.trip_nights = None \/ req.trip_nights[1] = 0
    THEN DEFAULT_TRIP_NIGHTS ELSE req.trip_nights[1]

needed_segments_repeated(templates) ==
    FlatMap(templates, LAMBDA template :
        [i \in 1..(Len(template) - 1) |-> <<Upper(template[i]), Upper(template[i + 1])>>])

\* _populate_graph: the set of the distinct legs of the templates, iterated
\* in a fixed order (each leg's edge list depends only on the date order of
\* its own fetches, so the iteration order of the set does not matter)
needed_segments(templates) ==
    LET needed == UNION { { <<Upper(template[i]), Upper(template[i + 1])>> :
                              i \in 1..(Len(template) - 1) } :
                          template \in Range(templates) }
    IN  SelectSeq(LegOrder, LAMBDA leg : leg \in needed)

\* _populate_graph: one fetch per needed leg and date of the capped window
populate_tasks(req, templates) ==
    LET date_range == Take(get_date_range(req.start_date, req.end_date),
                           MAX_POPULATE_DAYS)
    IN  FlatMap(needed_segments(templates), LAMBDA leg :
            Map(date_range, LAMBDA dep_date : <<leg[1], leg[2], dep_date>>))

\* the coroutine populate creates for one task
populate_fetch(c, w, task) ==
    IF is_international_route(task[1], task[2])
    THEN fetch_international_segment(c, w, task[1], task[2], task[3]).outcome
    ELSE fetch_domestic_segment(c, w, task[1], task[2], task[3]).outcome

\* the coroutine populate creates for one task, with the cache it leaves
populate_coroutine(c, w, task) ==
    IF is_international_route(task[1], task[2])
    THEN fetch_international_segment(c, w, task[1], task[2], task[3])
    ELSE fetch_domestic_segment(c, w, task[1], task[2], task[3])

\* limited_fetch: an exception of the fetch is logged and becomes None
limited_fetch(outcome) ==
    IF outcome.kind = "raise" THEN Returned(None) ELSE outcome

\* add_segments: add_segment on each segment in turn
RECURSIVE add_segments(_, _, _)
add_segments(g, segments, i) ==
    IF i > Len(segments) THEN g
    ELSE add_segments(add_segment(g, segments[i]), segments, i + 1)

ingest_results_until_failure(g, results) ==
    LET failed == { i \in 1..Len(results) :
                      results[i].kind = "raise" \/ results[i].seg = None }
        upto == IF failed = {} THEN Len(results)
                ELSE (CHOOSE i \in failed : \A j \in failed : i <= j) - 1
        found == SelectSeq(SubSeq(results, 1, upto), LAMBDA result : result.seg # None)
    IN  add_segments(g, Map(found, LAMBDA result : result.seg[1]), 1)

\* the loop over gather's results: an exception is skipped, None is
\* skipped, a segment is added to the graph
ingest_results(g, results) ==
    LET found == SelectSeq(results,
                     LAMBDA result : result.kind # "raise" /\ result.seg # None)
    IN  add_segments(g, Map(found, LAMBDA result : result.seg[1]), 1)

collect_itineraries_both(g, templates, dest, candidate_pairs) ==
    FlatMap(templates, LAMBDA template :
        IF ~validate_template(template, Some(dest)) THEN <<>>
        ELSE IF expand_template(g, template) = <<>> THEN <<>>
        ELSE FlatMap(candidate_pairs, LAMBDA pair :
                 LET strict == build_itinerary_from_template(
                                   g, template, pair[1], pair[2], dest, FALSE, TRUE)
                     relaxed == build_itinerary_from_template(
                                    g, template, pair[1], pair[2], dest, FALSE, FALSE)
                 IN  (IF strict # None THEN <<strict[1]>> ELSE <<>>)
                         \o (IF relaxed # None THEN <<relaxed[1]>> ELSE <<>>)))

\* the calls of build_itinerary_from_template that step 4 of search makes,
\* in order: per validated, edge-confirmed template and date pair the
\* strict call, and the relaxed call when the strict one gave nothing
collect_attempts(g, templates, dest, candidate_pairs) ==
    FlatMap(templates, LAMBDA template :
        IF ~validate_template(template, Some(dest)) THEN <<>>
        ELSE IF expand_template(g, template) = <<>> THEN <<>>
        ELSE FlatMap(candidate_pairs, LAMBDA pair :
                 LET strict == build_itinerary_from_template(
                                   g, template, pair[1], pair[2], dest, FALSE, TRUE)
                     attempt(mode) == [template |-> template, pair |-> pair,
                                       strict_date_match |-> mode]
                 IN  IF strict # None THEN <<attempt(TRUE)>>
                     ELSE <<attempt(TRUE), attempt(FALSE)>>))

\* steps 4 of search: every validated, edge-confirmed template with every
\* candidate date pair, strict first and relaxed when strict gave nothing
collect_itineraries(g, templates, dest, candidate_pairs) ==
    FlatMap(templates, LAMBDA template :
        IF ~validate_template(template, Some(dest)) THEN <<>>
        ELSE IF expand_template(g, template) = <<>> THEN <<>>
        ELSE FlatMap(candidate_pairs, LAMBDA pair :
                 LET strict == build_itinerary_from_template(
                                   g, template, pair[1], pair[2], dest, FALSE, TRUE)
                     itinerary == IF strict # None THEN strict
                                  ELSE build_itinerary_from_template(
                                           g, template, pair[1], pair[2], dest, FALSE, FALSE)
                 IN  IF itinerary # None THEN <<itinerary[1]>> ELSE <<>>))

SearchResponse(total_cost, segments, route_pattern, cheaper_than_direct, direct_cost) ==
    [total_cost |-> total_cost, segments |-> segments, route_pattern |-> route_pattern,
     cheaper_than_direct |-> cheaper_than_direct, direct_cost |-> direct_cost]

\* _get_direct_cost once both fetches returned
direct_cost_of(out, inb) ==
    IF out # None /\ inb # None THEN Some(out[1].price + inb[1].price) ELSE None

create_direct_response_cheaper(req, direct_cost) ==
    SearchResponse(IF direct_cost = None THEN 0 ELSE direct_cost[1],
                   <<>>,
                   <<Upper(req.departure), Upper(req.destination), Upper(req.departure)>>,
                   direct_cost # None, direct_cost)

\* _create_direct_response
create_direct_response(req, direct_cost) ==
    SearchResponse(IF direct_cost = None THEN 0 ELSE direct_cost[1],
                   <<>>,
                   <<Upper(req.departure), Upper(req.destination), Upper(req.departure)>>,
                   FALSE, direct_cost)

valid_segments_amadeus(segments) ==
    SelectSeq(segments, LAMBDA seg : seg.from_airport # "" /\ seg.to_airport # ""
                                     /\ seg.provider = "Amadeus")

\* step 7 of search: the segments with a date and both airport codes
valid_segments(segments) ==
    SelectSeq(segments, LAMBDA seg : seg.from_airport # "" /\ seg.to_airport # "")

----------------------------------------------------------------------------
(* The engine: one SearchEngine instance (controllers/search_controller.py *)
(* builds a single one) serving the searches of Searches, which interleave *)
(* at their awaits. Redis is not reachable here (redis_client is None), so *)
(* every fetch is a provider lookup and the cache never changes.           *)

Searches == {1, 2}

SearchRequest(departure, destination, start_date, end_date, trip_nights) ==
    [departure |-> departure, destination |-> destination, start_date |-> start_date,
     end_date |-> end_date, trip_nights |-> trip_nights]

AllLegs == (korean_airports \cup japanese_airports) \X (korean_airports \cup japanese_airports)

\* scenario 1 of the specification: the direct pair, on the dates asked for
WorldScenario1 ==
    [fares |-> { Fare("ICN", "KIX", Some(1), 82000), Fare("KIX", "ICN", Some(2), 85000) },
     raises |-> {}]

\* scenario 2: the one-stop fares and a direct pair of 90,000, on every date
WorldScenario2 ==
    [fares |-> { Fare("ICN", "KIX", None, 30000), Fare("KIX", "CTS", None, 8000),
                 Fare("CTS", "KIX", None, 8000), Fare("KIX", "ICN", None, 30000),
                 Fare("ICN", "CTS", None, 45000), Fare("CTS", "ICN", None, 45000) },
     raises |-> {}]

\* scenario 3: no fare at all
WorldNoFares == [fares |-> {}, raises |-> {}]

\* both providers down: every lookup raises
WorldDown == [fares |-> {}, raises |-> AllLegs]

\* some lookups raise, some return a fare, the others return None
WorldMixed ==
    [fares |-> { Fare("ICN", "KIX", None, 82000), Fare("KIX", "ICN", None, 85000),
                 Fare("ICN", "FUK", None, 60000), Fare("FUK", "KIX", Some(2), 9000) },
     raises |-> { <<"ICN", "NRT">>, <<"NRT", "KIX">>, <<"KIX", "FUK">> }]

\* a stop in Sapporo is cheaper than the direct flight to Osaka, and only
\* a search to Sapporo asks for the legs through it
WorldViaSapporo ==
    [fares |-> { Fare("ICN", "KIX", None, 82000), Fare("KIX", "ICN", None, 85000),
                 Fare("ICN", "CTS", None, 20000), Fare("CTS", "KIX", None, 8000),
                 Fare("CTS", "ICN", None, 45000) },
     raises |-> {}]

Scenarios ==
    { [world |-> WorldViaSapporo,
       requests |-> << SearchRequest("ICN", "KIX", 1, 1, Some(1)),
                       SearchRequest("ICN", "CTS", 1, 1, Some(1)) >>],
      [world |-> WorldScenario1,
       requests |-> << SearchRequest("ICN", "KIX", 1, 2, Some(1)),
                       SearchRequest("ICN", "KIX", 1, 1, Some(1)) >>],
      [world |-> WorldScenario2,
       requests |-> << SearchRequest("ICN", "CTS", 1, 1, None),
                       SearchRequest("icn", "kix", 2, 2, Some(1)) >>],
      [world |-> WorldNoFares,
       requests |-> << SearchRequest("ICN", "KIX", 1, 1, Some(1)),
                       SearchRequest("ICN", "CTS", 1, 1, None) >>],
      [world |-> WorldDown,
       requests |-> << SearchRequest("ICN", "KIX", 1, 1, Some(1)),
                       SearchRequest("ICN", "KIX", 1, 1, None) >>],
      [world |-> WorldMixed,
       requests |-> << SearchRequest("ICN", "KIX", 1, 2, Some(1)),
                       SearchRequest("ICN", "KIX", 1, 1, Some(1)) >>] }

\* the search variables of an engine that has served nothing yet
SearchIdle ==
    /\ semaphore = MAX_CONCURRENT_REQUESTS
    /\ phase = [r \in Searches |-> "idle"]
    /\ tasks = [r \in Searches |-> <<>>]
    /\ queued = [r \in Searches |-> 0]
    /\ inflight = [r \in Searches |-> 0]
    /\ completed = [r \in Searches |-> 0]
    /\ start_view = [r \in Searches |-> None]
    /\ assembled_from = [r \in Searches |-> None]
    /\ cheapest = [r \in Searches |-> None]
    /\ outbound = [r \in Searches |-> None]
    /\ response = [r \in Searches |-> None]

Init ==
    /\ graph = EmptyGraph
    /\ entry_airports = DEFAULT_ENTRY_AIRPORTS
    /\ exit_airports = DEFAULT_EXIT_AIRPORTS
    /\ \E sc \in Scenarios : world = sc.world /\ request = sc.requests
    /\ SearchIdle
    /\ cache = NoRedis
    /\ fetched = None
    /\ args = None
    /\ returned = None
    /\ finish_order = <<>>

\* FlightGraph.clear
clear(g) == EmptyGraph

\* search, from its entry to the await of gather: step 1 clears the graph,
\* step 2 generates the provisional templates, populate creates its tasks
SearchStart(r) ==
    /\ phase[r] = "idle"
    /\ LET g == clear(graph)
           templates == generate_templates(request[r].departure, request[r].destination,
                                           entry_airports, exit_airports, TRUE)
           todo == populate_tasks(request[r], templates)
       IN  /\ graph' = g
           /\ start_view' = [start_view EXCEPT ![r] =
                  Some([graph |-> g, entry_airports |-> entry_airports,
                        exit_airports |-> exit_airports])]
           /\ tasks' = [tasks EXCEPT ![r] = todo]
           /\ queued' = [queued EXCEPT ![r] = Len(todo)]
    /\ phase' = [phase EXCEPT ![r] = "populate"]
    /\ UNCHANGED <<callVars, fetchVars, entry_airports, exit_airports, semaphore, world, request, inflight,
                   completed, assembled_from, cheapest, outbound, response>>

LimitedFetchEnterUnlimited(r) ==
    /\ phase[r] = "populate"
    /\ queued[r] > 0
    /\ semaphore' = semaphore - 1
    /\ queued' = [queued EXCEPT ![r] = @ - 1]
    /\ inflight' = [inflight EXCEPT ![r] = @ + 1]
    /\ UNCHANGED <<callVars, fetchVars, graphVars, world, request, phase, tasks, completed, start_view,
                   assembled_from, cheapest, outbound, response>>

\* limited_fetch: `async with self.semaphore` takes a permit, then the fetch
\* is awaited (its provider lookup is under way)
LimitedFetchEnter(r) ==
    /\ phase[r] = "populate"
    /\ queued[r] > 0
    /\ semaphore > 0
    /\ semaphore' = semaphore - 1
    /\ queued' = [queued EXCEPT ![r] = @ - 1]
    /\ inflight' = [inflight EXCEPT ![r] = @ + 1]
    /\ UNCHANGED <<callVars, fetchVars, graphVars, world, request, phase, tasks, completed, start_view,
                   assembled_from, cheapest, outbound, response>>

LimitedFetchExitKeepsPermit(r) ==
    /\ phase[r] = "populate"
    /\ inflight[r] > 0
    /\ inflight' = [inflight EXCEPT ![r] = @ - 1]
    /\ completed' = [completed EXCEPT ![r] = @ + 1]
    /\ UNCHANGED <<callVars, fetchVars, graphVars, semaphore, world, request, phase, tasks, queued,
                   start_view, assembled_from, cheapest, outbound, response>>

\* limited_fetch: the fetch returned or raised; leaving the `async with`
\* block gives the permit back
LimitedFetchExit(r) ==
    /\ phase[r] = "populate"
    /\ inflight[r] > 0
    /\ semaphore' = semaphore + 1
    /\ inflight' = [inflight EXCEPT ![r] = @ - 1]
    /\ completed' = [completed EXCEPT ![r] = @ + 1]
    /\ UNCHANGED <<callVars, fetchVars, graphVars, world, request, phase, tasks, queued, start_view,
                   assembled_from, cheapest, outbound, response>>

\* what gather(*tasks, return_exceptions = True) hands to populate's loop:
\* the results in task order
gather_results(c, w, todo) ==
    Map(todo, LAMBDA task : limited_fetch(populate_fetch(c, w, task)))

gather_as_completed(c, w, todo, finished) ==
    [k \in 1..Len(finished) |-> limited_fetch(populate_fetch(c, w, todo[finished[k]]))]

\* asyncio.gather(*tasks): the results in the order of the tasks passed,
\* whatever the order `finished` in which they completed
gather(c, w, todo, finished) == gather_results(c, w, todo)

GatherReturnsFirstGeneration(r) ==
    /\ phase[r] = "populate"
    /\ completed[r] = Len(tasks[r])
    /\ LET req == request[r]
           dest == Upper(req.destination)
           g == ingest_results(graph, gather_results(cache, world, tasks[r]))
           refreshed == refresh_entry_exit_from_graph(g, entry_airports, exit_airports,
                                                      korean_airports, japanese_airports)
           templates == generate_templates(req.departure, req.destination,
                                           start_view[r][1].entry_airports,
                                           start_view[r][1].exit_airports, TRUE)
           candidate_pairs ==
               Take(get_departure_return_pairs(req.start_date, req.end_date,
                                               trip_nights_of(req)), MAX_DATE_PAIRS)
           itineraries == collect_itineraries(g, templates, dest, candidate_pairs)
           best == find_cheapest_itinerary(itineraries)
       IN  /\ graph' = g
           /\ entry_airports' = refreshed[1]
           /\ exit_airports' = refreshed[2]
           /\ assembled_from' = [assembled_from EXCEPT ![r] = Some(g)]
           /\ cheapest' = [cheapest EXCEPT ![r] = best]
           /\ phase' = [phase EXCEPT ![r] =
                  IF best = None THEN "fallback_outbound" ELSE "direct_outbound"]
    /\ UNCHANGED <<callVars, fetchVars, semaphore, world, request, tasks, queued, inflight,
                   completed, start_view, outbound, response>>

\* search, from the return of gather to the next await: populate ingests the
\* results, the entry/exit candidates are refreshed, the templates are
\* generated again, every itinerary is assembled and the cheapest is chosen;
\* then the first direct-cost fetch is under way
GatherReturns(r) ==
    /\ phase[r] = "populate"
    /\ completed[r] = Len(tasks[r])
    /\ LET req == request[r]
           dest == Upper(req.destination)
           g == ingest_results(graph, gather_results(cache, world, tasks[r]))
           refreshed == refresh_entry_exit_from_graph(g, entry_airports, exit_airports,
                                                      korean_airports, japanese_airports)
           templates == generate_templates(req.departure, req.destination,
                                           refreshed[1], refreshed[2], TRUE)
           candidate_pairs ==
               Take(get_departure_return_pairs(req.start_date, req.end_date,
                                               trip_nights_of(req)), MAX_DATE_PAIRS)
           itineraries == collect_itineraries(g, templates, dest, candidate_pairs)
           best == find_cheapest_itinerary(itineraries)
       IN  /\ graph' = g
           /\ entry_airports' = refreshed[1]
           /\ exit_airports' = refreshed[2]
           /\ assembled_from' = [assembled_from EXCEPT ![r] = Some(g)]
           /\ cheapest' = [cheapest EXCEPT ![r] = best]
           /\ phase' = [phase EXCEPT ![r] =
                  IF best = None THEN "fallback_outbound" ELSE "direct_outbound"]
    /\ UNCHANGED <<callVars, fetchVars, semaphore, world, request, tasks, queued, inflight,
                   completed, start_view, outbound, response>>

\* _get_direct_cost: the outbound fetch returned; the inbound one is under
\* way. An exception of the fetch propagates out of search.
OutboundReturns(r) ==
    /\ phase[r] \in {"direct_outbound", "fallback_outbound"}
    /\ LET req == request[r]
           got == fetch_international_segment(cache, world, req.departure,
                      req.destination, req.start_date).outcome
       IN  IF got.kind = "raise"
           THEN /\ phase' = [phase EXCEPT ![r] = "raised"]
                /\ UNCHANGED outbound
           ELSE /\ outbound' = [outbound EXCEPT ![r] = got.seg]
                /\ phase' = [phase EXCEPT ![r] =
                       IF phase[r] = "direct_outbound"
                       THEN "direct_inbound" ELSE "fallback_inbound"]
    /\ UNCHANGED <<callVars, fetchVars, graphVars, semaphore, world, request, tasks, queued, inflight,
                   completed, start_view, assembled_from, cheapest, response>>

\* _get_direct_cost: the inbound fetch returned. In step 6 search compares
\* and builds its response, or falls back when no segment is valid; in
\* _create_direct_response the direct-only response is returned.
InboundReturns(r) ==
    /\ phase[r] \in {"direct_inbound", "fallback_inbound"}
    /\ LET req == request[r]
           return_date == calculate_return_date(req.start_date, trip_nights_of(req))
           got == fetch_international_segment(cache, world, req.destination,
                      req.departure, return_date).outcome
           direct_cost == direct_cost_of(outbound[r], got.seg)
       IN  IF got.kind = "raise"
           THEN /\ phase' = [phase EXCEPT ![r] = "raised"]
                /\ UNCHANGED response
           ELSE IF phase[r] = "fallback_inbound"
           THEN /\ response' = [response EXCEPT ![r] =
                       Some(create_direct_response(req, direct_cost))]
                /\ phase' = [phase EXCEPT ![r] = "done"]
           ELSE IF valid_segments(cheapest[r][1].segments) = <<>>
           THEN /\ phase' = [phase EXCEPT ![r] = "fallback_outbound"]
                /\ UNCHANGED response
           ELSE /\ response' = [response EXCEPT ![r] =
                       Some(SearchResponse(
                           cheapest[r][1].total_cost,
                           valid_segments(cheapest[r][1].segments),
                           get_route_pattern(cheapest[r][1].segments),
                           compare_with_direct(cheapest[r][1], direct_cost),
                           direct_cost))]
                /\ phase' = [phase EXCEPT ![r] = "done"]
    /\ UNCHANGED <<callVars, fetchVars, graphVars, semaphore, world, request, tasks, queued, inflight,
                   completed, start_view, assembled_from, cheapest, outbound>>

Next ==
    \E r \in Searches :
        \/ SearchStart(r)
        \/ LimitedFetchEnter(r)
        \/ LimitedFetchExit(r)
        \/ GatherReturns(r)
        \/ OutboundReturns(r)
        \/ InboundReturns(r)

Spec == Init /\ [][Next]_vars

\* where GatherReturns(r) is enabled: every task of populate has ended
GatherEnabled(r) == phase[r] = "populate" /\ completed[r] = Len(tasks[r])

\* the event loop runs every task that can run: a fetch that can take a
\* permit takes it, a fetch under way ends (every fetch terminates), and
\* gather returns once every task has ended. The last is
\* WF_vars(GatherReturns(r)) written out: the step is enabled exactly where
\* GatherEnabled(r) holds and taking it ends populate, so weak fairness of
\* it says that GatherEnabled(r) does not hold for ever.
PopulateFairness ==
    \A r \in Searches :
        /\ WF_vars(LimitedFetchEnter(r))
        /\ WF_vars(LimitedFetchExit(r))
        /\ []<>~GatherEnabled(r)

\* the two searches of the scenario whose fetches end in all three ways
FairInit == Init /\ world = WorldMixed

FairSpec == FairInit /\ [][Next]_vars /\ PopulateFairness

----------------------------------------------------------------------------
(* Properties of the engine, checked under Spec.                           *)

InFlight == inflight[1] + inflight[2]

\* C1: during populate at most MAX_CONCURRENT_REQUESTS fetches are in
\* progress at any instant, however many fetches are required: each fetch in
\* progress holds one of the limiter's permits, and permits are never
\* overdrawn.
C1_AtMost20InFlight ==
    /\ \A r \in Searches : inflight[r] <= MAX_CONCURRENT_REQUESTS
    /\ semaphore >= 0
    /\ semaphore + InFlight = MAX_CONCURRENT_REQUESTS

\* one search holds all 20 permits while more of its fetches wait
C1_Witness ==
    \E r \in Searches :
        /\ Len(tasks[r]) > MAX_CONCURRENT_REQUESTS
        /\ inflight[r] = MAX_CONCURRENT_REQUESTS
        /\ queued[r] > 0

\* the provider a populate fetch of the leg goes to
ProviderOf(from_airport, to_airport) ==
    IF is_international_route(from_airport, to_airport) THEN "Amadeus" ELSE "Peach"

\* the provider's answer to populate's fetch `task`
Answer(w, task) ==
    provider_lookup(w, ProviderOf(task[1], task[2]), task[1], task[2], task[3])

\* the segments that the fetches of leg `leg` among `todo` obtained, in task order
Obtained(w, todo, leg) ==
    LET hits == SelectSeq(todo, LAMBDA task :
                    /\ <<task[1], task[2]>> = leg
                    /\ Answer(w, task).kind = "return"
                    /\ Answer(w, task).seg # None)
    IN  [i \in 1..Len(hits) |-> Answer(w, hits[i]).seg[1]]

StoredSegments(g, leg) == IF leg \in DOMAIN g THEN g[leg] ELSE <<>>

\* C2: whichever fetches raise, populate returns only when every fetch has
\* completed, it returns normally, and what it puts into the graph is
\* exactly the segments of the fetches that produced one: a fetch that
\* raised or found nothing contributes no segment and drops none.
C2_FailedFetchesIsolated ==
    [][\A r \in Searches :
          (phase[r] = "populate" /\ phase'[r] # "populate") =>
              /\ completed[r] = Len(tasks[r])
              /\ queued[r] = 0 /\ inflight[r] = 0
              /\ phase'[r] \in {"direct_outbound", "fallback_outbound"}
              /\ DOMAIN graph' \subseteq AllLegs
              /\ \A leg \in AllLegs :
                    StoredSegments(graph', leg) =
                        StoredSegments(graph, leg) \o Obtained(world, tasks[r], leg)]_vars

\* populate has returned although fetches raised before and after fetches
\* that produced a segment, and the segments produced are in the graph
C2_Witness ==
    \E r \in Searches :
        /\ assembled_from[r] # None
        /\ \E i, j, k \in 1..Len(tasks[r]) :
              /\ i < j /\ j < k
              /\ Answer(world, tasks[r][i]).kind = "raise"
              /\ Answer(world, tasks[r][j]).seg # None
              /\ Answer(world, tasks[r][k]).kind = "raise"
              /\ Answer(world, tasks[r][j]).seg[1] \in
                     Range(StoredSegments(assembled_from[r][1],
                                          <<tasks[r][j][1], tasks[r][j][2]>>))
        /\ \E l \in 1..Len(tasks[r]) :
              /\ Answer(world, tasks[r][l]).kind = "return"
              /\ Answer(world, tasks[r][l]).seg = None

\* C3: right after step 1 of every search the graph has no edge and the
\* entry and exit candidates are the defaults, whatever ran before.
C3_FreshGraphAtStart ==
    \A r \in Searches :
        start_view[r] # None =>
            /\ start_view[r][1].graph = EmptyGraph
            /\ start_view[r][1].entry_airports = DEFAULT_ENTRY_AIRPORTS
            /\ start_view[r][1].exit_airports = DEFAULT_EXIT_AIRPORTS

\* the graph holding exactly what the fetches of search r obtained
OwnGraph(r) ==
    [leg \in { l \in AllLegs : Obtained(world, tasks[r], l) # <<>> } |->
        Obtained(world, tasks[r], leg)]

\* C4: the graph a search assembles from holds exactly the segments fetched
\* for that search, also when another search runs on the engine meanwhile.
C4_AssemblesFromOwnSegments ==
    \A r \in Searches :
        assembled_from[r] # None => assembled_from[r][1] = OwnGraph(r)

\* the search r of scenario 2, ICN to CTS, has returned
Scenario2Done(r) ==
    /\ world = WorldScenario2
    /\ Upper(request[r].departure) = "ICN"
    /\ Upper(request[r].destination) = "CTS"
    /\ phase[r] = "done"

\* C5 as claimed: scenario 2 answers ICN -> KIX -> CTS -> KIX -> ICN at 76,000,
\* cheaper than the direct pair of 90,000.
C5_OneStopBothWays ==
    \A r \in Searches :
        Scenario2Done(r) =>
            /\ response[r][1].route_pattern = <<"ICN", "KIX", "CTS", "KIX", "ICN">>
            /\ response[r][1].total_cost = 76000
            /\ response[r][1].cheaper_than_direct
            /\ response[r][1].direct_cost = Some(90000)

\* C5 as amended: with the direct fares at 45,000 each way, scenario 2
\* answers ICN -> KIX -> CTS -> ICN at 30,000 + 8,000 + 45,000 = 83,000,
\* cheaper than the direct pair of 90,000; a template through the same
\* airport before and after the destination is never generated.
C5_OneStopOutbound ==
    \A r \in Searches :
        /\ Scenario2Done(r) =>
              /\ response[r][1].route_pattern = <<"ICN", "KIX", "CTS", "ICN">>
              /\ Map(response[r][1].segments, LAMBDA seg : seg.price) = <<30000, 8000, 45000>>
              /\ response[r][1].total_cost = 83000
              /\ response[r][1].cheaper_than_direct
              /\ response[r][1].direct_cost = Some(90000)
        /\ <<"ICN", "KIX", "CTS", "KIX", "ICN">> \notin
               Range(generate_templates("ICN", "CTS", entry_airports, exit_airports, TRUE))

C5_Witness ==
    \E r \in Searches :
        /\ Scenario2Done(r)
        /\ has_edge(assembled_from[r][1], "CTS", "KIX")
        /\ has_edge(assembled_from[r][1], "KIX", "ICN")
        /\ "KIX" \in Range(entry_airports) /\ "KIX" \in Range(exit_airports)

\* C6: when the only fares are D -> X on the departure date and X -> D on
\* the return date, search returns the direct template's itinerary: two
\* segments, their prices summed, pattern D -> X -> D.
C6_DirectItinerary ==
    \A r \in Searches :
        (world = WorldScenario1 /\ phase[r] = "done") =>
            /\ Map(response[r][1].segments, LAMBDA seg : seg.price) = <<82000, 85000>>
            /\ response[r][1].total_cost = 167000
            /\ response[r][1].route_pattern = <<"ICN", "KIX", "ICN">>

EntryEdges(g) ==
    { t \in japanese_airports : \E f \in korean_airports : has_edge(g, f, t) }

ExitEdges(g) ==
    { f \in japanese_airports : \E t \in korean_airports : has_edge(g, f, t) }

\* `after` is `before` refreshed from the set `found`: the airports found,
\* or the list as it was when none is found
RefreshedFrom(after, before, found) ==
    IF found = {} THEN after = before
    ELSE Range(after) = found /\ Len(after) = Cardinality(found)

\* the step of search r from the end of populate's ingestion to the
\* selection of its cheapest itinerary
SelectsAfterPopulate(r) == phase[r] = "populate" /\ phase'[r] # "populate"

\* C15 as stated: between the end of a search's ingestion and its selection
\* nothing touches the graph's edges or the entry/exit candidates: the
\* graph at selection is the graph ingestion left, and the candidates at
\* selection are those ingestion found in place.
C15_ReadOnlyUntilSelected ==
    [][\A r \in Searches :
          SelectsAfterPopulate(r) =>
              /\ assembled_from'[r] = Some(graph')
              /\ entry_airports' = entry_airports
              /\ exit_airports' = exit_airports]_vars

\* C15 amended: between the end of a search's ingestion and its selection
\* no other search takes a step and the graph's edges stay as ingestion left
\* them (the fetched segments appended, nothing else); the entry/exit
\* candidates are rewritten once, by the search's own refresh from those
\* edges, a list without a qualifying edge staying as it was.
C15_OnlyOwnRefreshUntilSelected ==
    [][\A r \in Searches :
          SelectsAfterPopulate(r) =>
              /\ assembled_from'[r] = Some(graph')
              /\ \A leg \in AllLegs :
                    StoredSegments(graph', leg) =
                        StoredSegments(graph, leg) \o Obtained(world, tasks[r], leg)
              /\ RefreshedFrom(entry_airports', entry_airports, EntryEdges(graph'))
              /\ RefreshedFrom(exit_airports', exit_airports, ExitEdges(graph'))
              /\ \A o \in Searches \ {r} :
                    /\ phase'[o] = phase[o]
                    /\ inflight'[o] = inflight[o]
                    /\ completed'[o] = completed[o]]_vars

\* a search has selected its itinerary after its refresh narrowed the entry
\* candidates and left the exit candidates, while the other search's
\* fetches were in flight
C15_Witness ==
    \E r \in Searches :
        /\ phase[r] \in {"direct_outbound", "fallback_outbound"}
        /\ assembled_from[r] = Some(graph)
        /\ entry_airports # DEFAULT_ENTRY_AIRPORTS
        /\ Range(entry_airports) # Range(exit_airports)
        /\ \E o \in Searches \ {r} : phase[o] = "populate" /\ inflight[o] > 0

\* the provider's answers to the two direct-cost fetches of search r
DirectOutboundAnswer(r) ==
    provider_lookup(world, "Amadeus", Upper(request[r].departure),
                    Upper(request[r].destination), request[r].start_date)

DirectInboundAnswer(r) ==
    provider_lookup(world, "Amadeus", Upper(request[r].destination),
                    Upper(request[r].departure),
                    calculate_return_date(request[r].start_date, trip_nights_of(request[r])))

TemplatesOf(r, entries, exits) ==
    generate_templates(request[r].departure, request[r].destination, entries, exits, TRUE)

\* the cheapest itinerary search r assembles from given templates on graph g
CheapestFrom(r, g, templates) ==
    find_cheapest_itinerary(collect_itineraries(g, templates, Upper(request[r].destination),
        Take(get_departure_return_pairs(request[r].start_date, request[r].end_date,
                                        trip_nights_of(request[r])), MAX_DATE_PAIRS)))

\* the searches whose direct-cost fetch (_get_direct_cost, for the response
\* or for the fallback) is under way
DirectFetching ==
    { r \in Searches : phase[r] \in {"direct_outbound", "direct_inbound",
                                     "fallback_outbound", "fallback_inbound"} }

\* C39: over all searches on the shared engine, the fetches of populate
\* under way and the direct-cost fetches under way are together at most
\* MAX_CONCURRENT_REQUESTS.
C39_AtMost20ProviderFetches ==
    InFlight + Cardinality(DirectFetching) <= MAX_CONCURRENT_REQUESTS

\* C38: when every fetch ends, populate ends; once it has returned none of
\* its fetches waits or is under way, the only permits taken are those of
\* fetches under way, and with no populate running all
\* MAX_CONCURRENT_REQUESTS permits are free, whether the fetches returned a
\* segment, returned nothing or raised.
C38_PopulateEndsPermitsFree ==
    /\ \A r \in Searches : (phase[r] = "populate") ~> (phase[r] \notin {"idle", "populate"})
    /\ [](\A r \in Searches :
              phase[r] \notin {"idle", "populate"} => queued[r] = 0 /\ inflight[r] = 0)
    /\ [](semaphore = MAX_CONCURRENT_REQUESTS - InFlight)
    /\ []((\A r \in Searches : phase[r] # "populate") => semaphore = MAX_CONCURRENT_REQUESTS)

\* both searches are past populate, with all permits free, where some
\* fetches returned a fare, some returned nothing and some raised
C38_Witness ==
    /\ world = WorldMixed
    /\ \A r \in Searches : phase[r] \notin {"idle", "populate"} /\ completed[r] = Len(tasks[r])
    /\ Len(tasks[1]) > MAX_CONCURRENT_REQUESTS
    /\ semaphore = MAX_CONCURRENT_REQUESTS
    /\ \E i, j, k \in DOMAIN tasks[1] :
          LET results == Map(tasks[1], LAMBDA task : populate_fetch(cache, world, task))
          IN  /\ results[i].kind = "raise"
              /\ results[j].kind = "return" /\ results[j].seg = None
              /\ results[k].kind = "return" /\ results[k].seg # None

\* the itineraries search r collects on graph g with the given candidates
CollectedFor(r, g, entries, exits) ==
    collect_itineraries(g, TemplatesOf(r, entries, exits), Upper(request[r].destination),
        Take(get_departure_return_pairs(request[r].start_date, request[r].end_date,
                                        trip_nights_of(request[r])), MAX_DATE_PAIRS))

\* C31: the step that selects takes nothing from an empty collection and
\* otherwise one of the collected itineraries whose total cost is at most
\* that of each of them; the total cost of a non-fallback response is the
\* minimum total cost over everything the search collected.
C31_CheapestSelected ==
    [][\A r \in Searches :
          /\ (phase[r] = "populate" /\ phase'[r] # "populate") =>
                 LET collected == CollectedFor(r, graph', entry_airports', exit_airports')
                 IN  IF collected = <<>> THEN cheapest'[r] = None
                     ELSE /\ cheapest'[r] # None
                          /\ cheapest'[r][1] \in Range(collected)
                          /\ \A it \in Range(collected) :
                                 cheapest'[r][1].total_cost <= it.total_cost
          /\ (response[r] = None /\ response'[r] # None
                  /\ response'[r][1].segments # <<>>) =>
                 /\ cheapest[r] # None
                 /\ response'[r][1].total_cost = cheapest[r][1].total_cost
                 /\ \A it \in Range(CollectedFor(r, assembled_from[r][1],
                            refresh_entry_exit_from_graph(assembled_from[r][1], <<>>, <<>>,
                                korean_airports, japanese_airports)[1],
                            refresh_entry_exit_from_graph(assembled_from[r][1], <<>>, <<>>,
                                korean_airports, japanese_airports)[2])) :
                        response'[r][1].total_cost <= it.total_cost]_vars

\* a search collected several itineraries, the first of them not the
\* cheapest, and answered with the cheapest
C31_Witness ==
    \E r \in Searches :
        /\ phase[r] = "done"
        /\ response[r] # None
        /\ response[r][1].segments # <<>>
        /\ LET g == assembled_from[r][1]
               lists == refresh_entry_exit_from_graph(g, <<>>, <<>>,
                            korean_airports, japanese_airports)
               collected == CollectedFor(r, g, lists[1], lists[2])
           IN  /\ Len(collected) >= 2
               /\ collected[1].total_cost > response[r][1].total_cost

\* C34: the total cost of a response that lists segments is the sum of the
\* prices of the segments it lists; the filter of step 7 removes no segment
\* of the selected itinerary.
C34_TotalIsSumOfListed ==
    \A r \in Searches :
        (response[r] # None /\ response[r][1].segments # <<>>) =>
            /\ response[r][1].total_cost = SumPrices(response[r][1].segments)
            /\ response[r][1].segments = cheapest[r][1].segments

\* a response lists three segments of three different prices
C34_Witness ==
    \E r \in Searches :
        /\ response[r] # None
        /\ Len(response[r][1].segments) = 3
        /\ Cardinality({ seg.price : seg \in Range(response[r][1].segments) }) = 3

\* C27: within one search the candidates are refreshed only in the step that
\* ends populate, which is taken only when every populate fetch has completed
\* and which refreshes from the graph holding the ingested results; the
\* itinerary selected in that step is assembled from the templates generated
\* from the refreshed candidates.
C27_StepOrder ==
    [][/\ (entry_airports' # entry_airports \/ exit_airports' # exit_airports) =>
              \E r \in Searches : phase[r] = "populate" /\ phase'[r] # "populate"
       /\ \A r \in Searches :
              (phase[r] = "populate" /\ phase'[r] # "populate") =>
                  /\ completed[r] = Len(tasks[r])
                  /\ inflight[r] = 0 /\ queued[r] = 0
                  /\ graph' = ingest_results(graph,
                                  gather(cache, world, tasks[r], <<>>))
                  /\ <<entry_airports', exit_airports'>> =
                         refresh_entry_exit_from_graph(graph', entry_airports,
                             exit_airports, korean_airports, japanese_airports)
                  /\ cheapest'[r] = CheapestFrom(r, graph',
                         TemplatesOf(r, entry_airports', exit_airports'))]_vars

\* a search selected an itinerary that the templates of its first generation
\* would not have given
C27_Witness ==
    \E r \in Searches :
        /\ phase[r] \in {"direct_outbound", "fallback_outbound"}
        /\ start_view[r] # None
        /\ assembled_from[r] = Some(graph)
        /\ cheapest[r] # CheapestFrom(r, graph,
               TemplatesOf(r, start_view[r][1].entry_airports,
                              start_view[r][1].exit_airports))

\* C18: a response of search with no segment is the direct-only response
\* (cheaper_than_direct false, pattern dep -> dest -> dep); a response built
\* from the winning itinerary carries at least one segment, all of them with
\* both airport codes.
C18_NoEmptyItinerary ==
    \A r \in Searches :
        response[r] # None =>
            LET resp == response[r][1]
            IN  IF resp.segments = <<>>
                THEN /\ ~resp.cheaper_than_direct
                     /\ resp.route_pattern =
                            << Upper(request[r].departure), Upper(request[r].destination),
                               Upper(request[r].departure) >>
                ELSE /\ cheapest[r] # None
                     /\ Range(resp.segments) \subseteq Range(cheapest[r][1].segments)
                     /\ \A seg \in Range(resp.segments) :
                            seg.from_airport # "" /\ seg.to_airport # ""

\* one search returned a response without segments although a direct fare
\* was found, the other a response with the segments of its itinerary
C18_Witness ==
    \E r, o \in Searches :
        /\ response[r] # None
        /\ response[r][1].segments = <<>>
        /\ response[r][1].direct_cost # None
        /\ response[o] # None
        /\ response[o][1].segments # <<>>

----------------------------------------------------------------------------
(* The two fetches driven directly against a Redis that an outside writer  *)
(* can damage: _fetch_international_segment and _fetch_domestic_segment    *)
(* are called one at a time, and between calls a stored value may be       *)
(* replaced by one that does not deserialize into a FlightSegment.         *)

MaxCorrupted == 1

FetchDates == {1, 2}
InternationalInputs == { <<"ICN", "KIX">>, <<"icn", "kix">>, <<"ICN", "NRT">> }
DomesticInputs == { <<"FUK", "KIX">>, <<"KIX", "FUK">> }

CacheKeys ==
    { generate_key("amadeus", Upper(leg[1]), Upper(leg[2]), format_date_for_api(d)) :
        leg \in InternationalInputs, d \in FetchDates }
    \cup
    { generate_key("airlabs", Upper(leg[1]), Upper(leg[2]), format_date_for_api(d)) :
        leg \in DomesticInputs, d \in FetchDates }

\* a date field that date.fromisoformat rejects
BadDate == <<2025, 13, 45>>

\* the stored value does not deserialize: its date string is no calendar
\* date, or a required field is missing
Undeserializable(value) == parse_api_date(value.date) = None \/ value.price = None

Corrupted(c) == { k \in DOMAIN c.data : Undeserializable(c.data[k].value) }

\* what an outside writer leaves under `key`: the stored value (or, where
\* nothing is stored, a value for the key's leg) with one field damaged
Damaged(c, key, field) ==
    LET base == IF key \in DOMAIN c.data THEN c.data[key].value
                ELSE [from_airport |-> key[5], to_airport |-> key[7],
                      price |-> Some(50000),
                      provider |-> IF key[1] = "amadeus" THEN "Amadeus" ELSE "Peach",
                      date |-> key[3]]
    IN  IF field = "date" THEN [base EXCEPT !.date = BadDate]
        ELSE [base EXCEPT !.price = None]

FetchInit ==
    /\ graph = EmptyGraph
    /\ entry_airports = DEFAULT_ENTRY_AIRPORTS
    /\ exit_airports = DEFAULT_EXIT_AIRPORTS
    /\ world = WorldMixed
    /\ request = <<>>
    /\ SearchIdle
    /\ cache \in {EmptyRedis, NoRedis}
    /\ fetched = None
    /\ args = None
    /\ returned = None
    /\ finish_order = <<>>

\* the record of one call: its arguments, what cache.get gave it, whether
\* the provider was called, and how the call ended
FetchRecord(kind, from_airport, to_airport, departure_date, cached, result) ==
    [kind |-> kind, from_airport |-> from_airport, to_airport |-> to_airport,
     date |-> departure_date, cached |-> cached,
     called |-> result.called, outcome |-> result.outcome]

FetchInternational ==
    \E leg \in InternationalInputs, d \in FetchDates :
        LET key == generate_key("amadeus", Upper(leg[1]), Upper(leg[2]),
                                format_date_for_api(d))
            result == fetch_international_segment(cache, world, leg[1], leg[2], d)
        IN  /\ cache' = result.cache
            /\ fetched' = Some(FetchRecord("international", leg[1], leg[2], d,
                                           cache_get(cache, key), result))
            /\ UNCHANGED <<callVars, graphVars, searchVars>>

FetchDomestic ==
    \E leg \in DomesticInputs, d \in FetchDates :
        LET key == generate_key("airlabs", Upper(leg[1]), Upper(leg[2]),
                                format_date_for_api(d))
            result == fetch_domestic_segment(cache, world, leg[1], leg[2], d)
        IN  /\ cache' = result.cache
            /\ fetched' = Some(FetchRecord("domestic", leg[1], leg[2], d,
                                           cache_get(cache, key), result))
            /\ UNCHANGED <<callVars, graphVars, searchVars>>

\* an outside writer damages the value stored under one key
CorruptEntry ==
    \E key \in CacheKeys, field \in {"date", "price"} :
        /\ cache.redis_client
        /\ Cardinality(Corrupted(cache) \cup {key}) <= MaxCorrupted
        /\ cache' = [cache EXCEPT !.data =
              [k \in (DOMAIN cache.data) \cup {key} |->
                  IF k = key
                  THEN [value |-> Damaged(cache, key, field),
                        ttl |-> IF key[1] = "amadeus" THEN INTERNATIONAL_TTL
                                ELSE DOMESTIC_TTL]
                  ELSE cache.data[k]]]
        /\ UNCHANGED <<callVars, graphVars, searchVars, fetched>>

FetchNext == FetchInternational \/ FetchDomestic \/ CorruptEntry

FetchSpec == FetchInit /\ [][FetchNext]_vars

\* the provider's answer to the fetch recorded in `call`
ProviderAnswer(call) ==
    provider_lookup(world, IF call.kind = "international" THEN "Amadeus" ELSE "Peach",
                    Upper(call.from_airport), Upper(call.to_airport), call.date)

\* C8: a fetch, international or domestic, that finds under its key a value
\* that does not deserialize treats it as a miss: the provider is called
\* and the fetch ends as the provider's lookup ends (the damaged value
\* itself raises nothing and is never returned).
C8_CorruptEntryIsMiss ==
    (fetched # None /\ fetched[1].cached # None
        /\ Undeserializable(fetched[1].cached[1])) =>
            /\ fetched[1].called
            /\ fetched[1].outcome = ProviderAnswer(fetched[1])

\* a domestic fetch found a value with a damaged date under its key and
\* returned the provider's segment
C8_Witness ==
    /\ fetched # None
    /\ fetched[1].kind = "domestic"
    /\ fetched[1].cached # None
    /\ fetched[1].cached[1].date = BadDate
    /\ fetched[1].called
    /\ fetched[1].outcome.kind = "return"
    /\ fetched[1].outcome.seg # None

\* the fetch recorded in `call`, made with cache c
FetchWith(c, call) ==
    IF call.kind = "international"
    THEN fetch_international_segment(c, world, call.from_airport, call.to_airport, call.date)
    ELSE fetch_domestic_segment(c, world, call.from_airport, call.to_airport, call.date)

\* C19: while Redis is unreachable every get is a miss, every set returns
\* False and stores nothing, every fetch calls its provider and ends as the
\* provider's lookup ends, which is also how the same fetch ends on a
\* reachable cache that holds nothing.
C19_UnavailableCacheDegrades ==
    ~cache.redis_client =>
        /\ DOMAIN cache.data = {}
        /\ \A key \in CacheKeys :
              /\ cache_get(cache, key) = None
              /\ ~cache_set_returns(cache, key, None, DOMESTIC_TTL)
              /\ cache_set(cache, key, None, DOMESTIC_TTL) = cache
        /\ fetched # None =>
              /\ fetched[1].cached = None
              /\ fetched[1].called
              /\ fetched[1].outcome = ProviderAnswer(fetched[1])
              /\ fetched[1].outcome = FetchWith(EmptyRedis, fetched[1]).outcome

\* with Redis unreachable a fetch obtained a fare (and tried to store it)
C19_Witness ==
    /\ ~cache.redis_client
    /\ fetched # None
    /\ fetched[1].outcome.kind = "return"
    /\ fetched[1].outcome.seg # None

\* the key of the fetch recorded in `call`
KeyOf(call) ==
    generate_key(IF call.kind = "international" THEN "amadeus" ELSE "airlabs",
                 Upper(call.from_airport), Upper(call.to_airport),
                 format_date_for_api(call.date))

\* C33: a fetch that finds under its key the value an earlier fetch of the
\* same provider, leg and date stored makes no provider call and returns
\* the segment that was stored, dated the date asked for; a fetch that
\* finds nothing calls the provider; a provider answer without a segment
\* is not stored: every intact value in the cache is a segment its provider
\* answers for the key's leg and date.
C33_CacheAside ==
    /\ fetched # None =>
          LET call == fetched[1]
          IN  /\ (call.cached # None /\ ~Undeserializable(call.cached[1])) =>
                     /\ ~call.called
                     /\ call.outcome.kind = "return"
                     /\ call.outcome.seg # None
                     /\ to_cache(call.outcome.seg[1]) = call.cached[1]
                     /\ call.outcome.seg[1].date = call.date
                     /\ call.outcome = ProviderAnswer(call)
              /\ call.cached = None => call.called
    /\ \A k \in DOMAIN cache.data \ Corrupted(cache) :
          LET looked == provider_lookup(world, cache.data[k].value.provider,
                                        k[5], k[7], parse_api_date(k[3])[1])
          IN  /\ looked.kind = "return"
              /\ looked.seg # None
              /\ cache.data[k].value = to_cache(looked.seg[1])

\* a fetch for the second day found the fare an earlier fetch had stored
\* and returned it without calling the provider
C33_Witness ==
    /\ fetched # None
    /\ fetched[1].cached # None
    /\ ~fetched[1].called
    /\ fetched[1].date = 2
    /\ fetched[1].outcome.seg # None
    /\ fetched[1].outcome.seg[1].date = 2

\* a fetch whose provider answered without a segment called the provider
\* although an earlier fetch of another date of the leg had stored a fare
C33_WitnessNotStored ==
    /\ fetched # None
    /\ fetched[1].called
    /\ fetched[1].cached = None
    /\ fetched[1].outcome.kind = "return"
    /\ fetched[1].outcome.seg = None
    /\ KeyOf(fetched[1]) \notin DOMAIN cache.data
    /\ \E k \in DOMAIN cache.data : k[5] = Upper(fetched[1].from_airport)
                                      /\ k[7] = Upper(fetched[1].to_airport)

\* the keys under which a fetch stored a provider's fare (still intact)
StoredByFetch(c, prefix) ==
    { k \in DOMAIN c.data : k[1] = prefix /\ k \notin Corrupted(c) }

\* C14: the TTL with which an international fare is stored is strictly
\* longer than the TTL with which a domestic fare is stored.
C14_InternationalTTLLonger ==
    \A i \in StoredByFetch(cache, "amadeus"), d \in StoredByFetch(cache, "airlabs") :
        cache.data[i].ttl > cache.data[d].ttl

----------------------------------------------------------------------------
(* A FlightGraph driven directly: segments are added one at a time and the *)
(* cheapest-segment queries are evaluated on every graph built that way.   *)

MaxSegs == 3

GraphCodes == {"ICN", "icn", "KIX", ""}
GraphDates == {1, 2}
GraphPrices == {82000, 85000}

GraphInputs ==
    { FlightSegment(f, t, p, "Amadeus", d) :
        f \in GraphCodes, t \in {"KIX", "ICN"}, p \in GraphPrices, d \in GraphDates }

StoredCount(g) ==
    LET RECURSIVE Sum(_)
        Sum(S) == IF S = {} THEN 0
                  ELSE LET l == CHOOSE x \in S : TRUE
                       IN  Len(g[l]) + Sum(S \ {l})
    IN  Sum(DOMAIN g)

GraphInit ==
    /\ graph = EmptyGraph
    /\ entry_airports = DEFAULT_ENTRY_AIRPORTS
    /\ exit_airports = DEFAULT_EXIT_AIRPORTS
    /\ world = WorldNoFares
    /\ request = <<>>
    /\ SearchIdle
    /\ cache = NoRedis
    /\ fetched = None
    /\ args = None
    /\ returned = None
    /\ finish_order = <<>>

GraphAdd ==
    \E s \in GraphInputs :
        /\ StoredCount(graph) < MaxSegs
        /\ graph' = add_segment(graph, s)
        /\ UNCHANGED <<entry_airports, exit_airports, searchVars, fetchVars, callVars>>

GraphNext == GraphAdd

GraphSpec == GraphInit /\ [][GraphNext]_vars

\* the stored segments of leg from -> to, as the set of their list positions
StoredOn(g, f, t) ==
    IF <<f, t>> \in DOMAIN g THEN { g[<<f, t>>][i] : i \in DOMAIN g[<<f, t>>] } ELSE {}

QueryCodes == {"ICN", "KIX"}

\* C9: get_cheapest_segment(from, to, date) returns a segment of minimum price
\* among exactly the stored segments of leg from -> to dated `date`, and
\* nothing when there is none.
C9_CheapestOnDate ==
    \A f \in QueryCodes, t \in QueryCodes, d \in GraphDates :
        LET match == { s \in StoredOn(graph, f, t) : s.date = d }
            r == get_cheapest_segment(graph, f, t, Some(d))
        IN  /\ (match = {}) <=> (r = None)
            /\ r # None =>
                 /\ r[1] \in match
                 /\ \A s \in match : r[1].price <= s.price

\* a dated query whose answer is dearer than a segment of the same leg on
\* another date, and than a segment of another leg on the same date
C9_Witness ==
    \E d \in GraphDates :
        LET r == get_cheapest_segment(graph, "ICN", "KIX", Some(d))
        IN  /\ r # None
            /\ \E s \in StoredOn(graph, "ICN", "KIX") : s.date # d /\ s.price < r[1].price
            /\ \E s \in StoredOn(graph, "KIX", "ICN") : s.date = d /\ s.price < r[1].price

\* C10: get_cheapest_segment(from, to) without a date returns a segment of
\* minimum price among all stored segments of the leg, whatever their dates,
\* and nothing iff the leg stores no segment.
C10_CheapestAnyDate ==
    \A f \in QueryCodes, t \in QueryCodes :
        LET all == StoredOn(graph, f, t)
            r == get_cheapest_segment(graph, f, t, None)
        IN  /\ (all = {}) <=> (r = None)
            /\ r # None =>
                 /\ r[1] \in all
                 /\ \A s \in all : r[1].price <= s.price

\* the undated answer is not the first stored segment and is cheaper than
\* every segment of the first stored segment's date
C10_Witness ==
    LET r == get_cheapest_segment(graph, "ICN", "KIX", None)
    IN  /\ r # None
        /\ r[1] # graph[<<"ICN", "KIX">>][1]
        /\ r[1].date # graph[<<"ICN", "KIX">>][1].date
        /\ r[1].price < graph[<<"ICN", "KIX">>][1].price

----------------------------------------------------------------------------
(* Functions called on their own. The engine is idle; args holds the       *)
(* arguments of the last call and returned holds its result.               *)

EngineIdle ==
    /\ graph = EmptyGraph
    /\ entry_airports = DEFAULT_ENTRY_AIRPORTS
    /\ exit_airports = DEFAULT_EXIT_AIRPORTS
    /\ world = WorldNoFares
    /\ request = <<>>
    /\ SearchIdle
    /\ cache = NoRedis
    /\ fetched = None

----------------------------------------------------------------------------
(* validate_template on templates grown one airport at a time.             *)

MaxTemplateLen == 7

TemplateCodes == {"ICN", "icn", "KIX", "CTS", "NRT", "FUK"}
TemplateDestinations == {None, Some("kix")}

TemplateInit ==
    /\ EngineIdle
    /\ \E dep \in {"ICN", "icn"}, dest \in TemplateDestinations :
          args = [template |-> <<dep>>, destination |-> dest]
    /\ returned = None
    /\ finish_order = <<>>

\* one more airport is appended and the longer template is validated
ValidateTemplate ==
    \E a \in TemplateCodes :
        /\ Len(args.template) < MaxTemplateLen
        /\ args' = [args EXCEPT !.template = Append(@, a)]
        /\ returned' = Some(validate_template(args'.template, args'.destination))
        /\ UNCHANGED <<graphVars, searchVars, fetchVars, finish_order>>

TemplateNext == ValidateTemplate

TemplateSpec == TemplateInit /\ [][TemplateNext]_vars

\* the interior stops of t, upper-cased, by position
Interior(t) == [i \in 2..(Len(t) - 1) |-> Upper(t[i])]

\* C11: validate_template(t, dest) is true exactly when t has at least 3
\* stops, its first and last airports are equal, its interior stops are
\* pairwise distinct and at most 4, and dest (when given) is an interior
\* stop; so shape D passes, and a repeated interior airport or a first
\* airport differing from the last is rejected.
C11_ValidateTemplate ==
    returned # None =>
        LET t == args.template
            dest == args.destination
        IN  returned[1] <=>
                /\ Len(t) >= 3
                /\ Upper(t[1]) = Upper(t[Len(t)])
                /\ \A i, j \in DOMAIN Interior(t) : i # j => Interior(t)[i] # Interior(t)[j]
                /\ Len(t) - 2 <= 4
                /\ dest # None => \E i \in DOMAIN Interior(t) : Interior(t)[i] = Upper(dest[1])

\* a shape-D template, four interior stops, is accepted for its destination
C11_Witness ==
    /\ returned = Some(TRUE)
    /\ Len(args.template) = 6
    /\ args.destination # None

----------------------------------------------------------------------------
(* build_itinerary_from_template called on graphs grown by add_segment:    *)
(* AssembleSpec.  args is the last call's arguments, returned its result;  *)
(* both are forgotten when the graph grows.                                *)

MaxAssembleSegs == 3

AssembleDates == {1, 2}

AssembleInputs ==
    { FlightSegment(leg[1], leg[2], p, "Amadeus", d) :
        leg \in {<<"ICN", "KIX">>, <<"KIX", "CTS">>, <<"CTS", "ICN">>, <<"KIX", "ICN">>},
        p \in GraphPrices, d \in AssembleDates }

\* template and destination of a call: a two-leg and a three-leg round
\* trip, the latter also with a destination that is not its turning point,
\* and a template too short to be one
AssembleRoutes ==
    { [template |-> <<"icn", "KIX", "ICN">>, destination |-> "kix"],
      [template |-> <<"ICN", "KIX", "CTS", "ICN">>, destination |-> "CTS"],
      [template |-> <<"ICN", "KIX", "CTS", "ICN">>, destination |-> "kix"],
      [template |-> <<"ICN", "KIX">>, destination |-> "kix"] }

AssembleCalls ==
    { [template |-> r.template, departure_date |-> 1, return_date |-> 2,
       destination |-> r.destination, allow_same_day_transfer |-> same_day,
       strict_date_match |-> strict] :
        r \in AssembleRoutes, same_day \in BOOLEAN, strict \in BOOLEAN }

AssembleInit ==
    /\ EngineIdle
    /\ args = None
    /\ returned = None
    /\ finish_order = <<>>

AssembleAdd ==
    \E s \in AssembleInputs :
        /\ StoredCount(graph) < MaxAssembleSegs
        /\ graph' = add_segment(graph, s)
        /\ args' = None
        /\ returned' = None
        /\ UNCHANGED <<entry_airports, exit_airports, searchVars, fetchVars, finish_order>>

Assemble ==
    \E a \in AssembleCalls :
        /\ args' = Some(a)
        /\ returned' = build_itinerary_from_template(graph, a.template,
                            a.departure_date, a.return_date, a.destination,
                            a.allow_same_day_transfer, a.strict_date_match)
        /\ graph' = graph_after_build(graph, a.template,
                            a.departure_date, a.return_date, a.destination,
                            a.allow_same_day_transfer, a.strict_date_match)
        /\ UNCHANGED <<entry_airports, exit_airports, searchVars, fetchVars, finish_order>>

AssembleNext == AssembleAdd \/ Assemble

AssembleSpec == AssembleInit /\ [][AssembleNext]_vars

\* the date cursor of a call at leg i of its template: the departure date at
\* the first leg, the return date once the leg starts at the destination,
\* otherwise the previous leg's date, one day later unless same-day
\* transfers are allowed
RECURSIVE CursorDate(_, _)
CursorDate(a, i) ==
    IF i = 1 THEN a.departure_date
    ELSE IF Upper(a.template[i]) = Upper(a.destination) THEN a.return_date
    ELSE IF a.allow_same_day_transfer THEN CursorDate(a, i - 1)
    ELSE CursorDate(a, i - 1) + 1

\* the stored segments of leg i of the call's template dated its cursor date
OnCursorDate(g, a, i) ==
    { s \in StoredOn(g, Upper(a.template[i]), Upper(a.template[i + 1])) :
        s.date = CursorDate(a, i) }

\* C12: a strict call returns an itinerary exactly when the template has at
\* least 3 stops and every leg has a stored segment dated the cursor date of
\* its position; the itinerary then has one segment per leg, of that leg,
\* dated the cursor date and priced the minimum of the stored segments of
\* that leg on that date; one leg without such a segment gives nothing.
C12_StrictAssembly ==
    (args # None /\ args[1].strict_date_match) =>
        LET a == args[1]
            legs == 1..(Len(a.template) - 1)
        IN  IF Len(a.template) >= 3 /\ \A i \in legs : OnCursorDate(graph, a, i) # {}
            THEN /\ returned # None
                 /\ Len(returned[1].segments) = Len(a.template) - 1
                 /\ \A i \in legs :
                        LET seg == returned[1].segments[i]
                        IN  /\ Upper(seg.from_airport) = Upper(a.template[i])
                            /\ Upper(seg.to_airport) = Upper(a.template[i + 1])
                            /\ seg.date = CursorDate(a, i)
                            /\ \E s \in OnCursorDate(graph, a, i) : s.price = seg.price
                            /\ \A s \in OnCursorDate(graph, a, i) : seg.price <= s.price
            ELSE returned = None

\* a strict call succeeded on a leg that stores two prices on its cursor date
C12_Witness ==
    /\ args # None
    /\ args[1].strict_date_match
    /\ returned # None
    /\ \E i \in 1..(Len(args[1].template) - 1) :
           \E s, u \in OnCursorDate(graph, args[1], i) : s.price # u.price

\* a strict call failed although every leg of its template has an edge
C12_WitnessMissingDate ==
    /\ args # None
    /\ args[1].strict_date_match
    /\ Len(args[1].template) >= 3
    /\ returned = None
    /\ \A i \in 1..(Len(args[1].template) - 1) :
           has_edge(graph, args[1].template[i], args[1].template[i + 1])

\* the stored segments of leg i of the call's template, of any date
OnAnyDate(g, a, i) ==
    StoredOn(g, Upper(a.template[i]), Upper(a.template[i + 1]))

\* the segments leg i of a relaxed call chooses among: those of the cursor
\* date when there is one, otherwise those of every date
RelaxedChoice(g, a, i) ==
    IF OnCursorDate(g, a, i) # {} THEN OnCursorDate(g, a, i) ELSE OnAnyDate(g, a, i)

\* every leg of a returned relaxed itinerary carries the minimum price of
\* the segments it chooses among
RelaxedLegsCheapest ==
    (args # None /\ ~args[1].strict_date_match /\ returned # None) =>
        \A i \in 1..(Len(args[1].template) - 1) :
            LET seg == returned[1].segments[i]
                choice == RelaxedChoice(graph, args[1], i)
            IN  /\ Upper(seg.from_airport) = Upper(args[1].template[i])
                /\ Upper(seg.to_airport) = Upper(args[1].template[i + 1])
                /\ \E s \in choice : s.price = seg.price
                /\ \A s \in choice : seg.price <= s.price

C24_CursorDates ==
    (args # None /\ returned # None) =>
        LET a == args[1]
            segments == returned[1].segments
        IN  /\ Len(segments) = Len(a.template) - 1
            /\ segments[1].date = a.departure_date
            /\ \A i \in 1..(Len(segments) - 1) :
                  segments[i + 1].date =
                      IF Upper(segments[i].to_airport) = Upper(a.destination)
                      THEN a.return_date
                      ELSE IF a.allow_same_day_transfer THEN segments[i].date
                      ELSE segments[i].date + 1

\* a relaxed call without same-day transfer returned three segments dated
\* departure, return and the day after: the jump at the destination and the
\* one-day advance after it
C24_Witness ==
    /\ args # None
    /\ ~args[1].strict_date_match
    /\ ~args[1].allow_same_day_transfer
    /\ returned # None
    /\ Len(returned[1].segments) = 3
    /\ returned[1].segments[1].date = args[1].departure_date
    /\ returned[1].segments[2].date = args[1].return_date
    /\ returned[1].segments[3].date = args[1].return_date + 1

\* a strict call with same-day transfer returned three segments, the second
\* dated like the first
C24_WitnessSameDay ==
    /\ args # None
    /\ args[1].strict_date_match
    /\ args[1].allow_same_day_transfer
    /\ returned # None
    /\ Len(returned[1].segments) = 3
    /\ returned[1].segments[2].date = returned[1].segments[1].date

\* C13: a call of build_itinerary_from_template, strict or relaxed, returning
\* an itinerary or nothing, leaves the graph as it was (every edge list, and
\* in it every segment's date and price), and a call repeated with the same
\* arguments returns the same itinerary.
C13_BuildLeavesGraph ==
    [][args' # None =>
          /\ graph' = graph
          /\ args' = args => returned' = returned]_vars

\* a relaxed call returned an itinerary with a leg taken from another date:
\* the returned segment carries the cursor date, the graph stores none of
\* that leg on that date
C13_Witness ==
    /\ args # None
    /\ ~args[1].strict_date_match
    /\ returned # None
    /\ \E i \in 1..(Len(args[1].template) - 1) :
           /\ OnCursorDate(graph, args[1], i) = {}
           /\ returned[1].segments[i].date = CursorDate(args[1], i)

----------------------------------------------------------------------------
(* _populate_graph called on its own: PopulateSpec. The fetches of search 1 *)
(* finish one at a time in any order, finish_order records the order; when *)
(* all have finished gather returns and the results are ingested.           *)

MaxPopulateTasks == 5

\* the fetches populate creates: per leg, one per date; the world is
\* WorldMixed, where ICN -> NRT raises and FUK -> KIX has a fare on day 2 only
PopulateTaskPool ==
    << <<"ICN", "KIX", 1>>, <<"ICN", "KIX", 2>>, <<"ICN", "NRT", 1>>,
       <<"FUK", "KIX", 1>>, <<"FUK", "KIX", 2>>, <<"KIX", "ICN", 1>>,
       <<"KIX", "ICN", 2>> >>

PopulateInit ==
    /\ graph = EmptyGraph
    /\ entry_airports = DEFAULT_ENTRY_AIRPORTS
    /\ exit_airports = DEFAULT_EXIT_AIRPORTS
    /\ world = WorldMixed
    /\ request = <<>>
    /\ semaphore = MAX_CONCURRENT_REQUESTS
    /\ phase = [r \in Searches |-> IF r = 1 THEN "populate" ELSE "idle"]
    /\ \E n \in 2..MaxPopulateTasks :
          tasks = [r \in Searches |-> IF r = 1 THEN Take(PopulateTaskPool, n) ELSE <<>>]
    /\ queued = [r \in Searches |-> 0]
    /\ inflight = [r \in Searches |-> 0]
    /\ completed = [r \in Searches |-> 0]
    /\ start_view = [r \in Searches |-> None]
    /\ assembled_from = [r \in Searches |-> None]
    /\ cheapest = [r \in Searches |-> None]
    /\ outbound = [r \in Searches |-> None]
    /\ response = [r \in Searches |-> None]
    /\ cache = NoRedis
    /\ fetched = None
    /\ args = None
    /\ returned = None
    /\ finish_order = <<>>

\* one of the fetches still running finishes
PopulateFetchDone ==
    \E i \in (1..Len(tasks[1])) \ Range(finish_order) :
        /\ phase[1] = "populate"
        /\ finish_order' = Append(finish_order, i)
        /\ completed' = [completed EXCEPT ![1] = @ + 1]
        /\ UNCHANGED <<graphVars, fetchVars, args, returned, semaphore, world, request,
                       phase, tasks, queued, inflight, start_view, assembled_from,
                       cheapest, outbound, response>>

\* every fetch has finished: gather returns and populate's loop ingests
PopulateGatherReturns ==
    /\ phase[1] = "populate"
    /\ completed[1] = Len(tasks[1])
    /\ graph' = ingest_results(graph, gather(cache, world, tasks[1], finish_order))
    /\ phase' = [phase EXCEPT ![1] = "populated"]
    /\ UNCHANGED <<callVars, fetchVars, entry_airports, exit_airports, semaphore, world,
                   request, tasks, queued, inflight, completed, start_view,
                   assembled_from, cheapest, outbound, response>>

PopulateNext == PopulateFetchDone \/ PopulateGatherReturns

PopulateSpec == PopulateInit /\ [][PopulateNext]_vars

\* C16: whatever the order in which the fetches finished, the graph after
\* populate has, per leg, the segments its fetches obtained in the order the
\* fetches were created, and no other edge: the contents depend on the task
\* list alone, not on finish_order.
C16_IngestionIgnoresCompletionOrder ==
    phase[1] = "populated" =>
        /\ DOMAIN graph \subseteq AllLegs
        /\ \A leg \in AllLegs :
              StoredSegments(graph, leg) = Obtained(world, tasks[1], leg)

\* populate has ingested after its fetches finished in the reverse of the
\* order they were created in, two of them for the same leg
C16_Witness ==
    /\ phase[1] = "populated"
    /\ Len(tasks[1]) >= 3
    /\ \A k \in DOMAIN finish_order : finish_order[k] = Len(tasks[1]) + 1 - k
    /\ \E leg \in DOMAIN graph : Len(graph[leg]) >= 2

----------------------------------------------------------------------------
(* A FlightGraph's mutators and its refresh called in any order:           *)
(* RefreshSpec. After a refresh, args holds the two lists as they were      *)
(* before it and the two airport sets it was called with.                  *)

MaxRefreshSegs == 3

RefreshInputs ==
    { FlightSegment(leg[1], leg[2], 50000, "Amadeus", 1) :
        leg \in { <<"ICN", "KIX">>, <<"icn", "NRT">>, <<"KIX", "ICN">>, <<"FUK", "ICN">>,
                  <<"KIX", "FUK">>, <<"ICN", "PUS">>, <<"", "KIX">> } }

\* the airport sets of a refresh: the defaults, and a narrower pair
RefreshSets ==
    { [korean |-> korean_airports, japanese |-> japanese_airports],
      [korean |-> {"ICN"}, japanese |-> {"KIX", "FUK"}] }

RefreshInit ==
    /\ EngineIdle
    /\ args = None
    /\ returned = None
    /\ finish_order = <<>>

RefreshAdd ==
    \E s \in RefreshInputs :
        /\ StoredCount(graph) < MaxRefreshSegs
        /\ graph' = add_segment(graph, s)
        /\ args' = None
        /\ UNCHANGED <<entry_airports, exit_airports, searchVars, fetchVars, returned,
                       finish_order>>

RefreshClear ==
    /\ graph' = clear(graph)
    /\ args' = None
    /\ UNCHANGED <<entry_airports, exit_airports, searchVars, fetchVars, returned,
                   finish_order>>

Refresh ==
    \E sets \in RefreshSets :
        LET refreshed == refresh_entry_exit_from_graph(graph, entry_airports,
                             exit_airports, sets.korean, sets.japanese)
        IN  /\ entry_airports' = refreshed[1]
            /\ exit_airports' = refreshed[2]
            /\ args' = Some([entries_old |-> entry_airports, exits_old |-> exit_airports,
                             korean |-> sets.korean, japanese |-> sets.japanese])
            /\ UNCHANGED <<graph, searchVars, fetchVars, returned, finish_order>>

RefreshNext == RefreshAdd \/ RefreshClear \/ Refresh

RefreshSpec == RefreshInit /\ [][RefreshNext]_vars

\* the airports of `japanese` reached by an edge from an airport of `korean`
EntryEdgesIn(g, korean, japanese) ==
    { t \in japanese : \E f \in korean : <<f, t>> \in DOMAIN g /\ g[<<f, t>>] # <<>> }

\* the airports of `japanese` with an edge to an airport of `korean`
ExitEdgesIn(g, korean, japanese) ==
    { f \in japanese : \E t \in korean : <<f, t>> \in DOMAIN g /\ g[<<f, t>>] # <<>> }

\* C17: after a refresh the entry list is exactly the destination-country
\* airports with an edge from a home airport, the exit list exactly those
\* with an edge to a home airport, and a list without a qualifying edge is
\* as it was before; and whatever add_segment, clear and refresh did so far,
\* neither list is empty.
C17_RefreshFromEdges ==
    /\ entry_airports # <<>>
    /\ exit_airports # <<>>
    /\ args # None =>
           /\ RefreshedFrom(entry_airports, args[1].entries_old,
                            EntryEdgesIn(graph, args[1].korean, args[1].japanese))
           /\ RefreshedFrom(exit_airports, args[1].exits_old,
                            ExitEdgesIn(graph, args[1].korean, args[1].japanese))

\* a refresh replaced the entry list by the airports found and kept the
\* exit list, for which no edge qualified
C17_Witness ==
    /\ args # None
    /\ EntryEdgesIn(graph, args[1].korean, args[1].japanese) # {}
    /\ entry_airports # args[1].entries_old
    /\ ExitEdgesIn(graph, args[1].korean, args[1].japanese) = {}
    /\ exit_airports = args[1].exits_old

\* a refresh on a cleared graph kept lists that an earlier refresh had set
C17_WitnessAfterClear ==
    /\ args # None
    /\ graph = EmptyGraph
    /\ entry_airports # DEFAULT_ENTRY_AIRPORTS
    /\ exit_airports # DEFAULT_EXIT_AIRPORTS

----------------------------------------------------------------------------
(* The providers' one-way lookups called on their own: ProviderSpec.       *)
(* AmadeusProvider.search_one_way and AirLabsProvider.search_peach_flight  *)
(* run the same retry loop around different bodies. args is the lookup     *)
(* under way (its loop variable, the attempts made, how many of them       *)
(* failed, the delays slept), returned is how it ended.                    *)

AMADEUS_MAX_RETRIES == 2
AMADEUS_RETRY_DELAY_BASE == 10
AIRLABS_MAX_RETRIES == 3
AIRLABS_RETRY_DELAY_BASE == 1

MaxRetriesOf(provider) ==
    IF provider = "Amadeus" THEN AMADEUS_MAX_RETRIES ELSE AIRLABS_MAX_RETRIES

RetryDelayBaseOf(provider) ==
    IF provider = "Amadeus" THEN AMADEUS_RETRY_DELAY_BASE ELSE AIRLABS_RETRY_DELAY_BASE

\* how the HTTP exchange of one search_flight call goes; a response with
\* offers holds direct flights only, or a direct flight and a connection
ApiOutcomes == {"offers", "connecting_offers", "no_offers", "http_error", "timeout"}

Offer(price, segments) == [price |-> price, segments |-> segments]

OfferSegment(departure, arrival, at) == [departure |-> departure, arrival |-> arrival, at |-> at]

\* the offers of a response: two direct flights; or a direct flight and a
\* connection through NRT whose second flight leaves on the next day
ApiResponse(api, origin, destination, departure_date) ==
    IF api = "offers"
    THEN << Offer(52000, <<OfferSegment(origin, destination, departure_date)>>),
            Offer(48000, <<OfferSegment(origin, destination, departure_date)>>) >>
    ELSE << Offer(52000, <<OfferSegment(origin, destination, departure_date)>>),
            Offer(60000, <<OfferSegment(origin, "NRT", departure_date),
                           OfferSegment("NRT", destination, departure_date + 1)>>) >>

normalize_offer(offer) ==
    LET segment_count == Len(offer.segments)
        segment_price == IF segment_count = 1 THEN offer.price
                         ELSE offer.price \div segment_count
    IN  [i \in 1..segment_count |->
            FlightSegment(offer.segments[i].departure, offer.segments[i].arrival,
                          segment_price, "Amadeus", offer.segments[i].at)]

\* normalize_response: one FlightSegment per flight of every offer, with
\* the flight's own airports and departure date and the offer's price
\* divided by the number of its flights
normalize_response(offers) == FlatMap(offers, normalize_offer)

\* search_flight: the normalised offers; an HTTP error status and every
\* other exception are logged inside and give the empty list
search_flight(api, origin, destination, departure_date) ==
    IF api \in {"offers", "connecting_offers"}
    THEN normalize_response(ApiResponse(api, origin, destination, departure_date))
    ELSE <<>>

\* the try body of search_one_way: the cheapest of search_flight's segments,
\* None when there is none
search_one_way_body(api, origin, destination, departure_date) ==
    LET segments == search_flight(api, origin, destination, departure_date)
    IN  IF segments # <<>> THEN Returned(Some(MinByPrice(segments))) ELSE Returned(None)

\* how the try body of search_peach_flight goes: the mock segment is built,
\* or the body raises (the place of the AirLabs call)
MockOutcomes == {"segment", "error"}

\* the try body of search_peach_flight
search_peach_flight_body(mock, origin, destination, departure_date) ==
    IF mock = "segment"
    THEN Returned(Some(FlightSegment(origin, destination, 8000, "Peach", departure_date)))
    ELSE Raised

ProviderCall(provider, origin, destination, departure_date) ==
    [provider |-> provider, origin |-> origin, destination |-> destination,
     departure_date |-> departure_date, attempt |-> 0, attempts |-> 0, failures |-> 0,
     slept |-> <<>>]

\* one iteration of `for attempt in range(MAX_RETRIES)`: the body returned,
\* or raised on the last attempt (re-raised), or raised before it (sleep
\* RETRY_DELAY_BASE * 2 ** attempt, next iteration)
retry_iteration(call, body, failed) ==
    LET made == [call EXCEPT !.attempts = @ + 1,
                             !.failures = IF failed THEN @ + 1 ELSE @]
    IN  IF body.kind = "return"
        THEN [call |-> made, result |-> Some(body)]
        ELSE IF call.attempt = MaxRetriesOf(call.provider) - 1
        THEN [call |-> made, result |-> Some(Raised)]
        ELSE [call |-> [made EXCEPT !.attempt = @ + 1,
                                    !.slept = Append(@, RetryDelayBaseOf(call.provider)
                                                           * 2 ^ call.attempt)],
              result |-> None]

ProviderLegs == { <<"ICN", "KIX">>, <<"KIX", "ICN">>, <<"KIX", "CTS">>, <<"FUK", "KIX">> }
ProviderDates == {1, 2, 3}

ProviderInit ==
    /\ EngineIdle
    /\ \E provider \in {"Amadeus", "Peach"}, leg \in ProviderLegs, d \in ProviderDates :
          args = Some(ProviderCall(provider, leg[1], leg[2], d))
    /\ returned = None
    /\ finish_order = <<>>

\* search_one_way: one iteration of its loop
SearchOneWayAttempt ==
    \E api \in ApiOutcomes :
        LET call == args[1]
            step == retry_iteration(call,
                        search_one_way_body(api, call.origin, call.destination,
                                            call.departure_date),
                        api \in {"http_error", "timeout"})
        IN  /\ call.provider = "Amadeus"
            /\ returned = None
            /\ call.attempt < AMADEUS_MAX_RETRIES
            /\ args' = Some(step.call)
            /\ returned' = step.result
            /\ UNCHANGED <<graphVars, searchVars, fetchVars, finish_order>>

\* search_peach_flight: one iteration of its loop
SearchPeachFlightAttempt ==
    \E mock \in MockOutcomes :
        LET call == args[1]
            step == retry_iteration(call,
                        search_peach_flight_body(mock, call.origin, call.destination,
                                                 call.departure_date),
                        mock = "error")
        IN  /\ call.provider = "Peach"
            /\ returned = None
            /\ call.attempt < AIRLABS_MAX_RETRIES
            /\ args' = Some(step.call)
            /\ returned' = step.result
            /\ UNCHANGED <<graphVars, searchVars, fetchVars, finish_order>>

\* _populate_graph on the lookup's result: a segment is added to the graph
IngestResult ==
    /\ returned # None
    /\ returned[1].kind = "return"
    /\ returned[1].seg # None
    /\ graph = EmptyGraph
    /\ graph' = add_segment(graph, returned[1].seg[1])
    /\ UNCHANGED <<entry_airports, exit_airports, searchVars, fetchVars, callVars>>

ProviderNext == SearchOneWayAttempt \/ SearchPeachFlightAttempt \/ IngestResult

ProviderSpec == ProviderInit /\ [][ProviderNext]_vars

\* C20: a one-way lookup makes at most MAX_RETRIES attempts and never
\* raises; a lookup whose attempt failed is tried again after a backoff
\* delay, so a lookup that ends with a failed attempt has made all
\* MAX_RETRIES attempts, slept between them, and returns None.
C20_RetriesThenAbsence ==
    /\ args[1].attempts <= MaxRetriesOf(args[1].provider)
    /\ returned # None =>
          /\ returned[1].kind # "raise"
          /\ args[1].failures > 0 =>
                /\ Len(args[1].slept) = args[1].failures
                   \/ /\ args[1].attempts = MaxRetriesOf(args[1].provider)
                      /\ Len(args[1].slept) = args[1].attempts - 1
                      /\ returned[1] = Returned(None)

\* C37: a lookup for (origin, destination, date) yields only a segment of
\* that airport pair and date, and the segment is stored under that leg:
\* the graph's edges are among the requested legs.
C37_SegmentOfRequestedLeg ==
    LET call == args[1]
    IN  /\ (returned # None /\ returned[1].kind = "return" /\ returned[1].seg # None) =>
              /\ returned[1].seg[1].from_airport = call.origin
              /\ returned[1].seg[1].to_airport = call.destination
              /\ returned[1].seg[1].date = call.departure_date
        /\ \A leg \in get_all_edges(graph) :
              /\ leg = <<call.origin, call.destination>>
              /\ \A i \in DOMAIN graph[leg] : graph[leg][i].date = call.departure_date

----------------------------------------------------------------------------
(* generate_templates called on its own: GenerateSpec. The entry and exit  *)
(* candidates are set to lists over a pool of airports, then templates are *)
(* generated for a departure and a destination.                            *)

MaxCandidates == 3

CandidatePool == {"NRT", "KIX", "FUK", "CTS"}

\* the lists without repetition of at most MaxCandidates airports
CandidateLists ==
    { l \in UNION { [1..n -> CandidatePool] : n \in 0..MaxCandidates } :
        \A i, j \in DOMAIN l : i # j => l[i] # l[j] }

\* set_entry_airports / set_exit_airports: upper-cased, empty codes dropped
set_airports(airports) == Map(SelectSeq(airports, LAMBDA a : a # ""), Upper)

GenerateInit ==
    /\ EngineIdle
    /\ args = None
    /\ returned = None
    /\ finish_order = <<>>

SetEntryAirports ==
    \E airports \in CandidateLists :
        /\ entry_airports' = set_airports(airports)
        /\ args' = None
        /\ returned' = None
        /\ UNCHANGED <<graph, exit_airports, searchVars, fetchVars, finish_order>>

SetExitAirports ==
    \E airports \in CandidateLists :
        /\ exit_airports' = set_airports(airports)
        /\ args' = None
        /\ returned' = None
        /\ UNCHANGED <<graph, entry_airports, searchVars, fetchVars, finish_order>>

GenerateTemplates ==
    \E departure \in {"ICN", "icn"}, destination \in {"KIX", "kix", "CTS", "OKA"} :
        /\ args' = Some([departure |-> departure, destination |-> destination])
        /\ returned' = Some(generate_templates(departure, destination,
                                               entry_airports, exit_airports, TRUE))
        /\ UNCHANGED <<graphVars, searchVars, fetchVars, finish_order>>

GenerateNext == SetEntryAirports \/ SetExitAirports \/ GenerateTemplates

GenerateSpec == GenerateInit /\ [][GenerateNext]_vars

\* the templates the four shapes give for D, X, entries E and exits S
ShapeA(D, X) == { <<D, X, D>> }
ShapeB(D, X, E) == { <<D, e, X, D>> : e \in E \ {X} }
ShapeC(D, X, E, S) ==
    { <<D, p[1], X, p[2], D>> : p \in { q \in (E \ {X}) \X S : q[2] # q[1] } }
ShapeD(D, X, E, S) ==
    { <<D, p[1], p[2], X, p[3], D>> :
        p \in { q \in (E \ {X}) \X (E \ {X}) \X S : q[1] # q[2] } }

\* C22: generate_templates(D, X) returns exactly the templates of shapes A,
\* B, C and, with at least two entries, D (both orders of an entry pair),
\* each once; every template starts and ends with D and has at least 3
\* stops and at most 4 interior stops.
C22_GeneratedTemplates ==
    (args # None /\ returned # None) =>
        LET D == Upper(args[1].departure)
            X == Upper(args[1].destination)
            E == Range(entry_airports)
            S == Range(exit_airports)
            templates == returned[1]
        IN  /\ Range(templates) =
                  ShapeA(D, X) \cup ShapeB(D, X, E) \cup ShapeC(D, X, E, S)
                      \cup (IF Cardinality(E) >= 2 THEN ShapeD(D, X, E, S) ELSE {})
            /\ Len(templates) = Cardinality(Range(templates))
            /\ \A t \in Range(templates) :
                  /\ t[1] = D /\ t[Len(t)] = D
                  /\ Len(t) >= 3
                  /\ Len(t) - 2 <= 4

\* templates were generated for a destination that is itself an entry
\* candidate, with three entries and two exits: shape D in both orders
C22_Witness ==
    /\ args # None
    /\ returned # None
    /\ Len(entry_airports) = 3
    /\ Len(exit_airports) = 2
    /\ Upper(args[1].destination) \in Range(entry_airports)
    /\ \E t, u \in Range(returned[1]) :
          Len(t) = 6 /\ Len(u) = 6 /\ t[2] = u[3] /\ t[3] = u[2]

----------------------------------------------------------------------------
(* expand_template called on graphs grown by add_segment: ExpandSpec.      *)

MaxExpandSegs == 3

ExpandInputs ==
    { FlightSegment(leg[1], leg[2], 50000, "Amadeus", d) :
        leg \in {<<"ICN", "KIX">>, <<"KIX", "CTS">>, <<"CTS", "ICN">>, <<"KIX", "ICN">>},
        d \in AssembleDates }

ExpandAdd ==
    \E s \in ExpandInputs :
        /\ StoredCount(graph) < MaxExpandSegs
        /\ graph' = add_segment(graph, s)
        /\ args' = None
        /\ returned' = None
        /\ UNCHANGED <<entry_airports, exit_airports, searchVars, fetchVars, finish_order>>

ExpandTemplates ==
    { <<>>, <<"ICN">>, <<"ICN", "KIX">>, <<"icn", "KIX", "ICN">>,
      <<"ICN", "KIX", "CTS", "ICN">> }

\* the availability maps of a call: none, the empty one, and those over the
\* two legs of the direct round trip or over the first of them
ExpandMaps ==
    {None}
        \cup { Some(m) : m \in [{<<"ICN", "KIX">>, <<"KIX", "ICN">>} -> BOOLEAN] }
        \cup { Some(m) : m \in [{<<"ICN", "KIX">>} -> BOOLEAN] }
        \cup { Some([leg \in {} |-> TRUE]) }

Expand ==
    \E template \in ExpandTemplates, available_segments \in ExpandMaps :
        /\ args' = Some([template |-> template, available_segments |-> available_segments])
        /\ returned' = Some(expand_template_with(graph, template, available_segments))
        /\ UNCHANGED <<graphVars, searchVars, fetchVars, finish_order>>

ExpandNext == ExpandAdd \/ Expand

ExpandSpec == AssembleInit /\ [][ExpandNext]_vars

\* leg i of template t is available to a call: marked True in the map when
\* one is supplied, otherwise stored in the graph
LegAvailable(g, a, i) ==
    LET leg == <<Upper(a.template[i]), Upper(a.template[i + 1])>>
    IN  IF a.available_segments = None
        THEN StoredOn(g, leg[1], leg[2]) # {}
        ELSE /\ leg \in DOMAIN a.available_segments[1]
             /\ a.available_segments[1][leg]

AllLegsAvailable(g, a) ==
    \A i \in 1..(Len(a.template) - 1) : LegAvailable(g, a, i)

\* an itinerary assembles from template t on graph g, strictly or relaxed,
\* for the departure on day 1 and the return on day 2
Assembles(g, t) ==
    \E strict \in BOOLEAN :
        build_itinerary_from_template(g, t, 1, 2, "KIX", FALSE, strict) # None

C23_WitnessMap ==
    /\ args # None
    /\ returned # None
    /\ args[1].available_segments # None
    /\ Len(args[1].template) = 3
    /\ returned[1] = <<>>
    /\ \A i \in 1..2 : has_edge(graph, args[1].template[i], args[1].template[i + 1])

----------------------------------------------------------------------------
(* Step 4 of search called on graphs grown by add_segment: CollectSpec.    *)
(* args is the call (templates, destination, candidate date pairs);        *)
(* returned holds the itineraries collected and the assembly calls made.   *)

\* the requests whose templates and date pairs step 4 is run with; the
\* candidates are KIX alone, as a refresh leaves them on these graphs
CollectRequests ==
    { SearchRequest("ICN", dest, 1, end_date, Some(1)) :
        dest \in {"CTS", "kix"}, end_date \in {1, 2} }

Collect ==
    \E req \in CollectRequests :
        LET dest == Upper(req.destination)
            templates == generate_templates(req.departure, req.destination,
                                            <<"KIX">>, <<"KIX">>, TRUE)
            candidate_pairs ==
                Take(get_departure_return_pairs(req.start_date, req.end_date,
                                                trip_nights_of(req)), MAX_DATE_PAIRS)
        IN  /\ args' = Some([templates |-> templates, dest |-> dest,
                             candidate_pairs |-> candidate_pairs])
            /\ returned' = Some([itineraries |-> collect_itineraries(graph, templates,
                                                     dest, candidate_pairs),
                                 attempts |-> collect_attempts(graph, templates,
                                                  dest, candidate_pairs)])
            /\ UNCHANGED <<graphVars, searchVars, fetchVars, finish_order>>

CollectNext == AssembleAdd \/ Collect

CollectSpec == AssembleInit /\ [][CollectNext]_vars

\* the validated, edge-confirmed templates of a call, in order
Gated(g, a) ==
    SelectSeq(a.templates, LAMBDA t :
        /\ validate_template(t, Some(a.dest))
        /\ \A i \in 1..(Len(t) - 1) : StoredOn(g, Upper(t[i]), Upper(t[i + 1])) # {})

\* the (template, date pair) combinations of a call, template-major
Combos(g, a) ==
    LET P == Len(a.candidate_pairs)
    IN  [k \in 1..(Len(Gated(g, a)) * P) |->
            [template |-> Gated(g, a)[((k - 1) \div P) + 1],
             pair |-> a.candidate_pairs[((k - 1) % P) + 1]]]

StrictOf(g, a, c) ==
    build_itinerary_from_template(g, c.template, c.pair[1], c.pair[2], a.dest, FALSE, TRUE)

RelaxedOf(g, a, c) ==
    build_itinerary_from_template(g, c.template, c.pair[1], c.pair[2], a.dest, FALSE, FALSE)

\* what one combination contributes: the strict itinerary, else the relaxed
\* one, else nothing
Collected(g, a, c) ==
    IF StrictOf(g, a, c) # None THEN StrictOf(g, a, c) ELSE RelaxedOf(g, a, c)

\* C25: per validated, edge-confirmed template and date pair the strict call
\* is made first and the relaxed call only after a strict call that returned
\* nothing; each combination contributes at most one itinerary, the strict
\* one whenever the strict call succeeds.
C25_StrictThenRelaxed ==
    (args # None /\ returned # None) =>
        LET a == args[1]
            combos == Combos(graph, a)
            found == SelectSeq(combos, LAMBDA c : Collected(graph, a, c) # None)
            attempts == returned[1].attempts
        IN  /\ Len(returned[1].itineraries) <= Len(combos)
            /\ returned[1].itineraries =
                   [k \in 1..Len(found) |-> Collected(graph, a, found[k])[1]]
            /\ \A k \in DOMAIN attempts :
                  IF attempts[k].strict_date_match
                  THEN \A j \in DOMAIN attempts :
                          (/\ j # k
                           /\ attempts[j].template = attempts[k].template
                           /\ attempts[j].pair = attempts[k].pair) =>
                              ~attempts[j].strict_date_match
                  ELSE /\ k > 1
                       /\ attempts[k - 1] = [attempts[k] EXCEPT !.strict_date_match = TRUE]
                       /\ StrictOf(graph, a, attempts[k]) = None
            /\ \A k \in DOMAIN combos :
                  \E j \in DOMAIN attempts :
                      /\ attempts[j].template = combos[k].template
                      /\ attempts[j].pair = combos[k].pair
                      /\ attempts[j].strict_date_match

\* one call collected a strict itinerary for one date pair and a relaxed one
\* for another
C25_Witness ==
    /\ args # None
    /\ returned # None
    /\ \E c, d \in Range(Combos(graph, args[1])) :
          /\ StrictOf(graph, args[1], c) # None
          /\ StrictOf(graph, args[1], d) = None
          /\ RelaxedOf(graph, args[1], d) # None
    /\ Len(returned[1].itineraries) = 2
    /\ Len(returned[1].attempts) = 3

----------------------------------------------------------------------------
(* The dispatch of populate's fetches on a reachable cache: DispatchSpec.  *)
(* Every leg has a fare, so each dispatched fetch leaves its key, under    *)
(* the prefix of the fetch populate chose, in the cache.                   *)

MaxDispatched == 2

\* two home airports, two of the destination country, one of neither
DispatchAirports == {"ICN", "CJU", "KIX", "CTS", "JFK"}

WorldDispatch ==
    [fares |-> { Fare(f, t, None, 50000) : f \in DispatchAirports, t \in DispatchAirports },
     raises |-> {}]

DispatchInit ==
    /\ graph = EmptyGraph
    /\ entry_airports = DEFAULT_ENTRY_AIRPORTS
    /\ exit_airports = DEFAULT_EXIT_AIRPORTS
    /\ world = WorldDispatch
    /\ request = <<>>
    /\ SearchIdle
    /\ cache = EmptyRedis
    /\ fetched = None
    /\ args = None
    /\ returned = None
    /\ finish_order = <<>>

\* one iteration of populate's task loop, its coroutine run to the end
PopulateDispatch ==
    \E f \in DispatchAirports, t \in DispatchAirports :
        LET task == <<f, t, 1>>
            result == populate_coroutine(cache, world, task)
        IN  /\ Cardinality(DOMAIN result.cache.data) <= MaxDispatched
            /\ cache' = result.cache
            /\ args' = Some(task)
            /\ returned' = result.outcome.seg
            /\ UNCHANGED <<graphVars, searchVars, fetched, finish_order>>

\* CacheManager.delete on a stored key
DispatchDelete ==
    \E key \in DOMAIN cache.data :
        /\ cache' = [cache EXCEPT !.data = [k \in (DOMAIN cache.data) \ {key} |-> cache.data[k]]]
        /\ args' = None
        /\ returned' = None
        /\ UNCHANGED <<graphVars, searchVars, fetched, finish_order>>

DispatchNext == PopulateDispatch \/ DispatchDelete

DispatchSpec == DispatchInit /\ [][DispatchNext]_vars

\* one endpoint in the home-country set and the other in the
\* destination-country set
CrossesBorder(f, t) ==
    \/ (f \in korean_airports /\ t \in japanese_airports)
    \/ (t \in korean_airports /\ f \in japanese_airports)

\* C28: a populate fetch goes to the international provider iff one endpoint
\* of its leg is a home-country airport and the other a destination-country
\* airport, and to the domestic provider otherwise; a leg and its reverse go
\* to the same provider.
C28_DispatchByCountry ==
    /\ \A k \in DOMAIN cache.data :
          /\ k[1] = (IF CrossesBorder(k[5], k[7]) THEN "amadeus" ELSE "airlabs")
          /\ cache.data[k].value.provider =
                 (IF CrossesBorder(k[5], k[7]) THEN "Amadeus" ELSE "Peach")
    /\ \A k, j \in DOMAIN cache.data :
          (k[5] = j[7] /\ k[7] = j[5]) => k[1] = j[1]
    /\ (args # None /\ returned # None) =>
          returned[1].provider =
              (IF CrossesBorder(args[1][1], args[1][2]) THEN "Amadeus" ELSE "Peach")

\* a leg from the destination country home and its reverse were both
\* dispatched, and so was a leg with an endpoint of neither country
C28_Witness ==
    /\ args # None
    /\ returned # None
    /\ args[1][1] \in japanese_airports
    /\ args[1][2] \in korean_airports
    /\ \E k \in DOMAIN cache.data : k[5] = args[1][2] /\ k[7] = args[1][1]
    /\ Cardinality(DOMAIN cache.data) = 2

\* a leg inside one country and a leg with an endpoint of neither country
\* were dispatched
C28_WitnessDomestic ==
    /\ \E k \in DOMAIN cache.data : k[5] = "KIX" /\ k[7] = "CTS"
    /\ \E k \in DOMAIN cache.data : k[5] = "ICN" /\ k[7] = "JFK"

----------------------------------------------------------------------------
(* The candidate date pairs of search computed for requests drawn from a   *)
(* bounded set: PairsSpec.                                                 *)

MaxPairDays == 7

\* trip_nights of a request: absent, zero, short, the default, and two
\* lengths that reach past the look-ahead
PairNights == {None, Some(0), Some(1), Some(3), Some(31), Some(35)}

PairRequests ==
    { SearchRequest("ICN", "KIX", start_date, end_date, trip_nights) :
        start_date \in {1, 20},
        end_date \in 0..(20 + MaxPairDays),
        trip_nights \in PairNights }

PairsInit ==
    /\ graph = EmptyGraph
    /\ entry_airports = DEFAULT_ENTRY_AIRPORTS
    /\ exit_airports = DEFAULT_EXIT_AIRPORTS
    /\ world = WorldNoFares
    /\ \E req \in PairRequests :
          /\ req.end_date \in (req.start_date - 1)..(req.start_date + MaxPairDays)
          /\ request = <<req>>
    /\ SearchIdle
    /\ cache = NoRedis
    /\ fetched = None
    /\ args = None
    /\ returned = None
    /\ finish_order = <<>>

\* step 4 of search up to candidate_pairs = date_pairs[:5]
CandidatePairs ==
    /\ args = None
    /\ args' = Some(request[1])
    /\ returned' = Some(Take(get_departure_return_pairs(request[1].start_date,
                                 request[1].end_date, trip_nights_of(request[1])),
                             MAX_DATE_PAIRS))
    /\ UNCHANGED <<graphVars, searchVars, fetchVars, finish_order>>

PairsNext == CandidatePairs

PairsSpec == PairsInit /\ [][PairsNext]_vars

\* the departure days d of [start_date, end_date] with d + n no later than
\* 30 days after end_date
DepartureDays(req, n) ==
    { d \in req.start_date..req.end_date : d + n <= req.end_date + 30 }

\* C29: the candidate date pairs are the first 5, in ascending departure
\* order, of the pairs (d, d + n) for each day d in [start_date, end_date]
\* with d + n <= end_date + 30, n being the trip_nights of the request, or 3
\* when the request gives none.
C29_CandidatePairs ==
    (args # None /\ returned # None) =>
        LET req == args[1]
            n == IF req.trip_nights = None THEN 3 ELSE req.trip_nights[1]
            days == DepartureDays(req, n)
            pairs == returned[1]
        IN  /\ Len(pairs) = (IF Cardinality(days) < 5 THEN Cardinality(days) ELSE 5)
            /\ \A k \in DOMAIN pairs :
                  /\ pairs[k][1] \in days
                  /\ pairs[k][2] = pairs[k][1] + n
                  /\ Cardinality({ d \in days : d < pairs[k][1] }) = k - 1

----------------------------------------------------------------------------
(* The fetches populate creates for the first templates of a search, for   *)
(* candidate lists set by hand and windows around the 7-day cap: TasksSpec. *)

\* windows of no day, one day, seven and eight days
TaskRequests ==
    { SearchRequest("ICN", dest, 1, end_date, None) :
        dest \in {"CTS", "kix"}, end_date \in {0, 1, 7, 8} }

\* an engine whose candidate lists were set by set_entry_airports and
\* set_exit_airports
TasksInit ==
    /\ graph = EmptyGraph
    /\ \E entries \in CandidateLists : entry_airports = set_airports(entries)
    /\ \E exits \in CandidateLists : exit_airports = set_airports(exits)
    /\ world = WorldNoFares
    /\ request = <<>>
    /\ SearchIdle
    /\ cache = NoRedis
    /\ fetched = None
    /\ args = None
    /\ returned = None
    /\ finish_order = <<>>

\* search up to the creation of populate's tasks
PopulateTasks ==
    \E req \in TaskRequests :
        /\ args = None
        /\ LET templates == generate_templates(req.departure, req.destination,
                                               entry_airports, exit_airports, TRUE)
           IN  /\ args' = Some([request |-> req, templates |-> templates])
               /\ returned' = Some(populate_tasks(req, templates))
        /\ UNCHANGED <<graphVars, searchVars, fetchVars, finish_order>>

TasksNext == PopulateTasks

TasksSpec == TasksInit /\ [][TasksNext]_vars

\* the legs appearing in the templates
TemplateLegs(templates) ==
    { <<Upper(templates[k][i]), Upper(templates[k][i + 1])>> :
        <<k, i>> \in { p \in (DOMAIN templates) \X (1..5) : p[2] < Len(templates[p[1]]) } }

\* the first 7 days of [start_date, end_date]
CappedWindow(req) ==
    { d \in req.start_date..req.end_date : d < req.start_date + 7 }

\* C30: populate creates exactly one fetch for each distinct leg of the
\* first-generation templates combined with each of the first 7 days of
\* [start_date, end_date]: none twice, none for another leg or another date.
C30_OneFetchPerLegAndDate ==
    (args # None /\ returned # None) =>
        LET todo == returned[1]
        IN  /\ Cardinality(Range(todo)) = Len(todo)
            /\ Range(todo) =
                  { <<leg[1], leg[2], d>> :
                      leg \in TemplateLegs(args[1].templates),
                      d \in CappedWindow(args[1].request) }

\* tasks were created for an 8-day window and templates sharing a leg
C30_Witness ==
    /\ args # None
    /\ returned # None
    /\ args[1].request.end_date - args[1].request.start_date + 1 > 7
    /\ \E k, j \in DOMAIN args[1].templates :
          /\ k # j
          /\ args[1].templates[k][2] = args[1].templates[j][2]
    /\ Len(returned[1]) = 7 * Cardinality(TemplateLegs(args[1].templates))

----------------------------------------------------------------------------
(* Step 6 of search on a selected itinerary and the two direct fetches'    *)
(* results drawn from a bounded set: CompareSpec.                          *)

\* prices a provider can answer; normalize_response yields 0 for an offer
\* without a price
DirectPrices == {0, 40000, 45000}

DirectResults ==
    {None} \cup { Some(FlightSegment("ICN", "KIX", p, "Amadeus", 1)) : p \in DirectPrices }

SelectedCosts == {0, 40000, 80000, 85000, 90000}

CompareInit ==
    /\ EngineIdle
    /\ \E total_cost \in SelectedCosts, out \in DirectResults, inb \in DirectResults :
          args = Some([cheapest |-> Itinerary(<<>>, total_cost),
                       outbound |-> out, inbound |-> inb])
    /\ returned = None
    /\ finish_order = <<>>

\* _get_direct_cost once both fetches returned, then compare_with_direct
CompareWithDirect ==
    /\ returned = None
    /\ LET direct_cost == direct_cost_of(args[1].outbound, args[1].inbound)
       IN  returned' = Some([direct_cost |-> direct_cost,
                             cheaper_than_direct |->
                                 compare_with_direct(args[1].cheapest, direct_cost)])
    /\ UNCHANGED <<graphVars, searchVars, fetchVars, args, finish_order>>

CompareNext == CompareWithDirect

CompareSpec == CompareInit /\ [][CompareNext]_vars

\* C32: the direct cost is the sum of the outbound and the inbound direct
\* fare, and null unless both were obtained; cheaper_than_direct is true iff
\* no direct cost is known or the itinerary's total cost is strictly less
\* than it (an equal cost gives false).
C32_CheaperThanDirect ==
    returned # None =>
        LET a == args[1]
            known == a.outbound # None /\ a.inbound # None
        IN  /\ returned[1].direct_cost =
                   (IF known THEN Some(a.outbound[1].price + a.inbound[1].price) ELSE None)
            /\ returned[1].cheaper_than_direct <=>
                   (\/ ~known
                    \/ a.cheapest.total_cost < a.outbound[1].price + a.inbound[1].price)

----------------------------------------------------------------------------
(* Steps 3-1 to 4 of search on graphs that also hold a leg from the        *)
(* destination to itself, which the domestic provider answers like any     *)
(* other leg: RoundTripSpec.                                               *)

MaxRoundTripSegs == 4

RoundTripInputs ==
    { FlightSegment(leg[1], leg[2], 10000, "Peach", 1) :
        leg \in {<<"ICN", "KIX">>, <<"KIX", "CTS">>, <<"CTS", "CTS">>,
                 <<"CTS", "ICN">>, <<"ICN", "CTS">>} }

RoundTripAdd ==
    \E s \in RoundTripInputs :
        /\ StoredCount(graph) < MaxRoundTripSegs
        /\ graph' = add_segment(graph, s)
        /\ args' = None
        /\ returned' = None
        /\ UNCHANGED <<entry_airports, exit_airports, searchVars, fetchVars, finish_order>>

RoundTripRequests ==
    { SearchRequest(dep, "CTS", 1, 1, Some(1)) : dep \in {"ICN", "icn"} }

\* search from the refresh of the candidates to the collected itineraries
RoundTripCollect ==
    \E req \in RoundTripRequests :
        LET refreshed == refresh_entry_exit_from_graph(graph, entry_airports,
                             exit_airports, korean_airports, japanese_airports)
            templates == generate_templates(req.departure, req.destination,
                                            refreshed[1], refreshed[2], TRUE)
            candidate_pairs ==
                Take(get_departure_return_pairs(req.start_date, req.end_date,
                                                trip_nights_of(req)), MAX_DATE_PAIRS)
        IN  /\ entry_airports' = refreshed[1]
            /\ exit_airports' = refreshed[2]
            /\ args' = Some([request |-> req, templates |-> templates])
            /\ returned' = Some(collect_itineraries(graph, templates,
                                    Upper(req.destination), candidate_pairs))
            /\ UNCHANGED <<graph, searchVars, fetchVars, finish_order>>

RoundTripNext == RoundTripAdd \/ RoundTripCollect

RoundTripSpec == AssembleInit /\ [][RoundTripNext]_vars

\* the airports an itinerary visits between its first departure and its
\* last arrival
InteriorStops(it) == [i \in 1..(Len(it.segments) - 1) |-> Upper(it.segments[i].to_airport)]

\* C35: every collected itinerary, hence every itinerary a response
\* returns, is a connected round trip: it starts from the request's
\* departure airport and ends there, each segment departs from where the
\* previous one arrived, the destination is among its interior stops and no
\* interior stop occurs twice.
C35_ConnectedRoundTrip ==
    (args # None /\ returned # None) =>
        \A it \in Range(returned[1]) :
            LET segments == it.segments
                dep == Upper(args[1].request.departure)
            IN  /\ Len(segments) >= 2
                /\ Upper(segments[1].from_airport) = dep
                /\ Upper(segments[Len(segments)].to_airport) = dep
                /\ \A i \in 1..(Len(segments) - 1) :
                       Upper(segments[i + 1].from_airport) = Upper(segments[i].to_airport)
                /\ Upper(args[1].request.destination) \in Range(InteriorStops(it))
                /\ Cardinality(Range(InteriorStops(it))) = Len(InteriorStops(it))

\* an itinerary was collected while a generated template that repeats the
\* destination has every one of its legs stored
C35_Witness ==
    /\ args # None
    /\ returned # None
    /\ returned[1] # <<>>
    /\ \E k \in DOMAIN args[1].templates :
          LET t == args[1].templates[k]
          IN  /\ t = <<"ICN", "KIX", "CTS", "CTS", "ICN">>
              /\ \A i \in 1..(Len(t) - 1) : has_edge(graph, t[i], t[i + 1])

----------------------------------------------------------------------------
(* The same steps of search on graphs that hold the legs of a template     *)
(* with two entry stops: DatesSpec.                                        *)

MaxDatesSegs == 6

DatesInputs ==
    { FlightSegment(leg[1], leg[2], 10000, "Peach", 1) :
        leg \in {<<"ICN", "KIX">>, <<"ICN", "FUK">>, <<"KIX", "FUK">>,
                 <<"FUK", "CTS">>, <<"CTS", "NRT">>, <<"NRT", "ICN">>} }

DatesAdd ==
    \E s \in DatesInputs :
        /\ StoredCount(graph) < MaxDatesSegs
        /\ graph' = add_segment(graph, s)
        /\ args' = None
        /\ returned' = None
        /\ UNCHANGED <<entry_airports, exit_airports, searchVars, fetchVars, finish_order>>

DatesNext == DatesAdd \/ RoundTripCollect

DatesSpec == AssembleInit /\ [][DatesNext]_vars

\* C36: in every itinerary that search collects no segment is dated earlier
\* than the segment before it.
C36_DatesNonDecreasing ==
    (args # None /\ returned # None) =>
        \A it \in Range(returned[1]) :
            \A i \in 1..(Len(it.segments) - 1) :
                it.segments[i].date <= it.segments[i + 1].date

----------------------------------------------------------------------------
(* DateUtils.compute_segment_dates_for_template beside the dates that      *)
(* build_itinerary_from_template assigns: SegmentDatesSpec. args is a      *)
(* validated template of the generator with the dates of a trip; the       *)
(* graph is given a fare for each of its legs, then both are computed.     *)

\* the loop of compute_segment_dates_for_template from leg i on
RECURSIVE segment_dates(_, _, _, _, _, _, _)
segment_dates(template, i, dates, current_date, return_date, final_destination, allow_same_day_transfer) ==
    IF i > Len(template) - 1 THEN dates
    ELSE LET to_airport == template[i + 1]
             next_date == IF to_airport = final_destination THEN return_date
                          ELSE IF ~allow_same_day_transfer THEN current_date + 1
                          ELSE current_date
         IN  segment_dates(template, i + 1, Append(dates, current_date), next_date,
                           return_date, final_destination, allow_same_day_transfer)

\* compute_segment_dates_for_template: final_destination = template[-2]
compute_segment_dates_for_template(template, departure_date, return_date, allow_same_day_transfer) ==
    segment_dates(template, 1, <<>>, departure_date, return_date,
                  template[Len(template) - 1], allow_same_day_transfer)

SegmentDatesDestination == "CTS"

\* the templates search assembles for ICN -> CTS with the default candidates
SegmentDatesTemplates ==
    { t \in Range(generate_templates("ICN", SegmentDatesDestination, DEFAULT_ENTRY_AIRPORTS,
                                     DEFAULT_EXIT_AIRPORTS, TRUE)) :
        validate_template(t, Some(SegmentDatesDestination)) }

SegmentDatesInit ==
    /\ EngineIdle
    /\ \E template \in SegmentDatesTemplates, departure_date \in {1, 2},
          trip_nights \in {1, DEFAULT_TRIP_NIGHTS}, allow_same_day_transfer \in BOOLEAN :
          args = Some([template |-> template, departure_date |-> departure_date,
                       return_date |-> calculate_return_date(departure_date, trip_nights),
                       destination |-> SegmentDatesDestination,
                       allow_same_day_transfer |-> allow_same_day_transfer])
    /\ returned = None
    /\ finish_order = <<>>

\* populate's ingestion of one fare for every leg of the template
StoreTemplateLegs ==
    LET template == args[1].template
    IN  /\ graph = EmptyGraph
        /\ graph' = add_segments(graph,
                        [i \in 1..(Len(template) - 1) |->
                            FlightSegment(template[i], template[i + 1], 10000, "Amadeus",
                                          args[1].departure_date)], 1)
        /\ UNCHANGED <<entry_airports, exit_airports, searchVars, fetchVars, callVars>>

\* both computations for the template and the dates of args
ComputeSegmentDates ==
    LET a == args[1]
    IN  /\ returned = None
        /\ expand_template(graph, a.template) # <<>>
        /\ returned' = Some([dates |-> compute_segment_dates_for_template(a.template,
                                           a.departure_date, a.return_date,
                                           a.allow_same_day_transfer),
                             built |-> build_itinerary_from_template(graph, a.template,
                                           a.departure_date, a.return_date, a.destination,
                                           a.allow_same_day_transfer, FALSE)])
        /\ UNCHANGED <<graphVars, searchVars, fetchVars, args, finish_order>>

SegmentDatesNext == StoreTemplateLegs \/ ComputeSegmentDates

SegmentDatesSpec == SegmentDatesInit /\ [][SegmentDatesNext]_vars

\* C40: for every validated template of the generator,
\* compute_segment_dates_for_template returns the dates that
\* build_itinerary_from_template gives the legs of the template for the same
\* dates and the template's destination.
C40_SameSegmentDates ==
    returned # None =>
        /\ returned[1].built # None
        /\ Len(returned[1].dates) = Len(returned[1].built[1].segments)
        /\ \A i \in DOMAIN returned[1].dates :
              returned[1].dates[i] = returned[1].built[1].segments[i].date

====
